---- MODULE Spec2Model ----
(***************************************************************************)
(* thingosdci: the build scheduler (building.py), the Build and BuildGroup *)
(* state machines, the loop device table (loopdevmanager.py) and the group *)
(* lifecycle handlers of RepoService (reposervices/__init__.py).           *)
(*                                                                         *)
(* All the code runs on one tornado IOLoop.  A step of the model is one    *)
(* run of a handler between two suspension points: one pass of the         *)
(* scheduling loop, one webhook/trigger handler, one container state       *)
(* change, or one callback queued with IOLoop.spawn_callback.              *)
(***************************************************************************)
EXTENDS Integers, Sequences, FiniteSets, Bags, TLC

\* ---------------------------------------------------------------- bounds
\* number of Build objects ever constructed in one behaviour
MaxBuilds == 4
\* settings.DOCKER_MAX_PARALLEL, set below the number of boards of the model
\* so that the parallelism bound is the one that blocks
DOCKER_MAX_PARALLEL == 2
\* number of slots of settings.LOOP_DEV_RANGE
LoopDevCount == 2
\* number of Build objects constructed in a behaviour checked for liveness
MaxBuildsLive == 3
\* number of Build objects constructed when the Build methods are called directly
MaxBuildsApi == 2

\* ------------------------------------------------------------- constants
\* first slot of settings.LOOP_DEV_RANGE
LoopDevLo == 10

\* Python's None, for each kind of value a field holds
None == "None"
NoGroup == 0
NoContainer == 0
NoExitCode == -1
NoLoopDev == <<>>
NoHour == -1

STATE_PENDING == "pending"
STATE_RUNNING == "running"
STATE_ENDED == "ended"

TYPE_PR == "pr"
TYPE_NIGHTLY == "nightly"
TYPE_TAG == "tag"
TYPE_CUSTOM == "custom"

\* settings.BOARDS, in order
BOARDS == <<"raspberrypi", "raspberrypi2">>
\* default board of run_custom_cmd
DummyBoard == "dummyboard"
\* settings.NIGHTLY_BRANCHES
NIGHTLY_BRANCHES == <<"master", "dev">>
\* the branch of settings.NIGHTLY_BRANCHES that receives commits in Spec
NightlyBranches == {"dev"}
\* the branches commits are pushed to: the nightly ones and another one
Branches == {NIGHTLY_BRANCHES[i] : i \in DOMAIN NIGHTLY_BRANCHES} \cup {"feature"}
\* commit ids
CommitIds == {"c1", "c2"}
\* pull request numbers that are opened or updated in the model
PrNos == {"1"}
\* custom command texts
CustomCmds == {"git push --delete origin nightly-dev"}
\* container exit codes
ExitCodes == {0, 1}

\* the stamp time.time() returns (never None)
Time == "t"

VARIABLES
    mode,                    \* main(): "server", or "shell" when sys.argv[1] is 'shell'
    builds,                  \* sequence of Build objects, in construction order
    groups,                  \* sequence of BuildGroup objects
    build_queue,             \* building._build_queue (build ids)
    current_builds_by_board, \* building._current_builds_by_board (board -> build id)
    current_build_group,     \* building._current_build_group (group id or None)
    loop_devs,               \* loopdevmanager._loop_devs (slot -> busy)
    containers,              \* launched containers (container id -> exit code)
    tasks,                   \* callbacks queued with IOLoop.spawn_callback, FIFO
    raised,                  \* exception the last step ended with (None when it returned)
    call,                    \* history: the direct Build method call of the last step
    launched,                \* history, per build: how run_container ended for it
    dispatched,              \* history, per build: the observer calls spawned, in order
    handled,                 \* history, per group: the handler calls made and statuses set
    suspended,               \* service handlers waiting for an outbound call to return
    started,                 \* history: the service handlers in the order they started
    released,                \* history: the groups handle_release was called for, in order
    last_commit_by_branch,   \* RepoService._last_commit_by_branch
    last_nightly_commit_by_branch, \* RepoService._last_nightly_commit_by_branch
    nightly_fixed_hour,      \* settings.NIGHTLY_FIXED_HOUR
    clock,                   \* the wall clock: calendar date and hour of the day
    last_run_day,            \* _fixed_hour_loop: last_run_day
    fired,                   \* history: the clock at each run of the fixed hour task
    docker,                  \* dockerctl.py: the cache, _busy, _callbacks and the containers
    build_py,                \* build.py: its builds, _build_queue, _current_builds_by_board
    run_loop_alive,          \* the coroutine building._run_loop has not ended
    release                  \* handle_release: its position, the settings it reads, the
                             \* releases and tags of the repository service, the requests made

vars == <<mode, builds, groups, build_queue, current_builds_by_board,
          current_build_group, loop_devs, containers, tasks, raised, call, launched, dispatched,
          handled, suspended, started, released, last_commit_by_branch,
          last_nightly_commit_by_branch, nightly_fixed_hour, clock, last_run_day, fired,
          docker, build_py, run_loop_alive, release>>

RangeOf(s) == {s[i] : i \in DOMAIN s}

\* ------------------------------------------------------- loopdevmanager.py
LoopDevSlots == LoopDevLo .. (LoopDevLo + LoopDevCount - 1)

\* str(l) for l >= 0: the decimal digits of l, one character each
DigitChars == <<"0", "1", "2", "3", "4", "5", "6", "7", "8", "9">>

RECURSIVE IntToText(_)
IntToText(l) ==
    IF l < 10 THEN <<DigitChars[l + 1]>>
    ELSE Append(IntToText(l \div 10), DigitChars[(l % 10) + 1])

\* int(text) for a text of digits and letters: the number, or ValueError
\* when the text is empty or holds a character that is not a digit
DigitValue(ch) == (CHOOSE d \in DOMAIN DigitChars : DigitChars[d] = ch) - 1

RECURSIVE TextValue(_)
TextValue(text) ==
    IF text = <<>> THEN 0
    ELSE 10 * TextValue(SubSeq(text, 1, Len(text) - 1)) + DigitValue(text[Len(text)])

TextToInt(text) ==
    IF text = <<>> \/ \E i \in DOMAIN text : text[i] \notin RangeOf(DigitChars)
    THEN [raised |-> "ValueError", value |-> 0]
    ELSE [raised |-> None, value |-> TextValue(text)]

\* a path is its first 9 characters and the characters after them
\* _LOOP_DEV_PATTERN.format(l): the 9 characters "/dev/loop" and the digits of l
LoopDevPath(l) == <<"/dev/loop", IntToText(l)>>

FreeSlots(devs) == {l \in DOMAIN devs : ~devs[l]}

LowestOf(S) == CHOOSE l \in S : \A m \in S : l <= m

\* acquire_loop_dev taking the last free slot of the table
AcquireLoopDev_LastFree(devs) ==
    IF FreeSlots(devs) # {}
    THEN LET l == CHOOSE x \in FreeSlots(devs) : \A y \in FreeSlots(devs) : y <= x
         IN [devs |-> [devs EXCEPT ![l] = TRUE], result |-> LoopDevPath(l), raised |-> None]
    ELSE [devs |-> devs, result |-> NoLoopDev, raised |-> "LoopDevManagerException"]

\* acquire_loop_dev(): [devs, result, raised]
AcquireLoopDev(devs) ==
    IF FreeSlots(devs) # {}
    THEN LET l == LowestOf(FreeSlots(devs))
         IN [devs |-> [devs EXCEPT ![l] = TRUE], result |-> LoopDevPath(l), raised |-> None]
    ELSE [devs |-> devs, result |-> NoLoopDev, raised |-> "LoopDevManagerException"]

\* release_loop_dev without the test "if not busy"
ReleaseLoopDev_NoBusyTest(devs, loop_dev) ==
    LET parsed == TextToInt(loop_dev[2])
        ld == parsed.value
    IN IF parsed.raised # None
       THEN [devs |-> devs, raised |-> "LoopDevManagerException"]
       ELSE IF ld \notin DOMAIN devs
       THEN [devs |-> devs, raised |-> "LoopDevManagerException"]
       ELSE [devs |-> [devs EXCEPT ![ld] = FALSE], raised |-> None]

\* release_loop_dev(loop_dev): [devs, raised]
ReleaseLoopDev(devs, loop_dev) ==
    LET parsed == TextToInt(loop_dev[2])  \* int(loop_dev[9:])
        ld == parsed.value
    IN IF parsed.raised # None
       THEN [devs |-> devs, raised |-> "LoopDevManagerException"]
       ELSE IF ld \notin DOMAIN devs
       THEN [devs |-> devs, raised |-> "LoopDevManagerException"]
       ELSE IF ~devs[ld]
       THEN [devs |-> devs, raised |-> "LoopDevManagerException"]
       ELSE [devs |-> [devs EXCEPT ![ld] = FALSE], raised |-> None]

\* loopdevmanager.init()
InitLoopDevs == [l \in LoopDevSlots |-> FALSE]

\* ------------------------------------------------------------ machine state
\* The program state a handler reads and writes, threaded through the
\* operators below so that the calls of one handler compose in order.
NoCall == [op |-> None, build |-> 0, arg |-> 0]

Cur ==
    [builds |-> builds, groups |-> groups, queue |-> build_queue,
     current |-> current_builds_by_board, group |-> current_build_group,
     loop_devs |-> loop_devs, containers |-> containers, tasks |-> tasks,
     raised |-> None, call |-> NoCall,
     launched |-> launched, dispatched |-> dispatched, handled |-> handled,
     suspended |-> suspended, started |-> started, released |-> released,
     last_commit |-> last_commit_by_branch,
     last_nightly_commit |-> last_nightly_commit_by_branch,
     nightly_fixed_hour |-> nightly_fixed_hour,
     clock |-> clock, last_run_day |-> last_run_day, fired |-> fired,
     docker |-> docker, build_py |-> build_py, run_loop_alive |-> run_loop_alive,
     release |-> release]

Commit(m) ==
    \E r \in {m} :
        /\ builds' = r.builds
        /\ groups' = r.groups
        /\ build_queue' = r.queue
        /\ current_builds_by_board' = r.current
        /\ current_build_group' = r.group
        /\ loop_devs' = r.loop_devs
        /\ containers' = r.containers
        /\ tasks' = r.tasks
        /\ raised' = r.raised
        /\ call' = r.call
        /\ launched' = r.launched
        /\ dispatched' = r.dispatched
        /\ handled' = r.handled
        /\ suspended' = r.suspended
        /\ started' = r.started
        /\ released' = r.released
        /\ last_commit_by_branch' = r.last_commit
        /\ last_nightly_commit_by_branch' = r.last_nightly_commit
        /\ nightly_fixed_hour' = r.nightly_fixed_hour
        /\ clock' = r.clock
        /\ last_run_day' = r.last_run_day
        /\ fired' = r.fired
        /\ docker' = r.docker
        /\ build_py' = r.build_py
        /\ run_loop_alive' = r.run_loop_alive
        /\ release' = r.release

\* ------------------------------------------------------------ dockerctl.py
\* build keys scheduled in the model, and the bounds on containers started
\* and on calls of schedule_build
BuildKeys == {"k1", "k2"}
MaxContainers == 2
MaxDockerSchedules == 2

NoInfo == [status |-> None]

\* the module state after init() on an empty cache with no container
InitDocker ==
    [queue |-> <<>>,                          \* cache list docker-build-queue
     keys |-> {},                             \* cache entry docker-build-keys
     info |-> [k \in BuildKeys |-> NoInfo],   \* cache entries build/<key>
     busy |-> 0,                              \* _busy
     last_callback_id |-> 1,                  \* _last_callback_id
     callbacks |-> {},                        \* keys of _callbacks
     popped |-> NoInfo,                       \* _run_loop: build_info while it waits
     cons |-> <<>>,                           \* the containers docker knows, by id
     spawned |-> EmptyBag,                    \* history: the handlers spawned, with repetition
     foreign_cmds |-> {},                     \* history: commands run on foreign containers
     status_loop_alive |-> TRUE,              \* _status_loop has not ended
     cleanup_loop_alive |-> TRUE,             \* _cleanup_loop has not ended
     schedules |-> 0]                         \* history: calls of schedule_build

\* settings.REPO, as its runs of [a-z0-9] and the characters between them
REPO == <<"owner", "/", "project">>

\* the characters of a name that '[^a-z0-9]' matches
NonAlnum == {"/", "-", ".", "_", ":"}

\* re.sub('[^a-z0-9]', '-', s, count): the fourth positional argument of
\* re.sub is count, so re.IGNORECASE (2) bounds the replacements
RECURSIVE ReSub(_, _)
ReSub(s, count) ==
    IF s = <<>> THEN <<>>
    ELSE IF Head(s) \in NonAlnum /\ count > 0
    THEN <<"-">> \o ReSub(Tail(s), count - 1)
    ELSE <<Head(s)>> \o ReSub(Tail(s), count)

\* _CONTAINER_NAME_PREFIX.format(repo=re.sub(..., settings.REPO, re.IGNORECASE))
NamePrefix == <<"thingosdci", "-">> \o ReSub(REPO, 2) \o <<"-">>

\* the name _run_loop gives container c: the prefix and 8 hex digits
ContainerName(c) == NamePrefix \o <<"sha1", c>>

\* names of containers other programs run on the same docker
ForeignNames == {<<"thingosdci", "-", "owner", "-", "other", "-", "sha1", 0>>}

\* name.startswith(prefix)
StartsWith(name, prefix) ==
    Len(name) >= Len(prefix) /\ SubSeq(name, 1, Len(prefix)) = prefix

\* a docker command that fails in a pass: none, or cmd on one container
\* ('ls' is on no container; 'write_log' is open/write of the log file)
NoFailure == [cmd |-> None, container |-> 0]
Failed(failure, cmd, c) == failure.cmd = cmd /\ failure.container = c

\* history: the docker commands run on containers that are not named by
\* this controller
Touch(d, cmd, c) ==
    IF c \in DOMAIN d.cons /\ ~StartsWith(d.cons[c].name, NamePrefix)
    THEN [d EXCEPT !.foreign_cmds = @ \cup {<<cmd, c>>}]
    ELSE d

\* the entry of _docker_list_containers for container c; exit_code is what
\* 'docker wait' gave, 1 when it failed
ListedContainer(d, c, failure) ==
    [id |-> c, running |-> d.cons[c].running, age_exceeded |-> d.cons[c].age_exceeded,
     exit_code |-> IF d.cons[c].running THEN NoExitCode
                   ELSE IF Failed(failure, "wait", c) THEN 1
                   ELSE d.cons[c].exit_code]

\* the listing that keeps the containers of every name
DockerListContainers_NoPrefixTest(d) == {c \in DOMAIN d.cons : ~d.cons[c].removed}

\* _docker_list_containers: the ids of the containers docker has whose name
\* starts with the prefix
DockerListContainers(d) ==
    {c \in DOMAIN d.cons : ~d.cons[c].removed /\ StartsWith(d.cons[c].name, NamePrefix)}

\* 'docker wait' was run on the listed containers that are not running
RECURSIVE TouchWaited(_, _)
TouchWaited(d, listed) ==
    IF listed = {} THEN d
    ELSE LET c == CHOOSE x \in listed : TRUE
         IN TouchWaited(IF d.cons[c].running THEN d ELSE Touch(d, "wait", c), listed \ {c})

\* _docker_kill_container(c): fails on a container that is not running
DockerKillContainer(d, c, by, docker_ok) ==
    IF c \in DOMAIN d.cons /\ ~d.cons[c].removed /\ d.cons[c].running /\ docker_ok
    THEN [raised |-> None,
          d |-> Touch([d EXCEPT !.cons[c].running = FALSE, !.cons[c].exit_code = 137,
                                !.cons[c].killed_by = by], "kill", c)]
    ELSE [raised |-> "DockerException", d |-> Touch(d, "kill", c)]

\* _docker_remove_container that removes the container before its log is
\* fetched and written
DockerRemoveContainer_RmFirst(d, c, failed) ==
    IF ~(c \in DOMAIN d.cons /\ ~d.cons[c].removed)
    THEN [raised |-> "DockerException", d |-> d]
    ELSE IF d.cons[c].running \/ failed = "rm"
    THEN [raised |-> "DockerException", d |-> Touch(d, "rm", c)]
    ELSE IF failed = "logs"
    THEN [raised |-> "DockerException", d |-> Touch([d EXCEPT !.cons[c].removed = TRUE], "rm", c)]
    ELSE IF failed = "write_log"
    THEN [raised |-> "OSError", d |-> Touch([d EXCEPT !.cons[c].removed = TRUE], "rm", c)]
    ELSE [raised |-> None,
          d |-> Touch([d EXCEPT !.cons[c].removed = TRUE, !.cons[c].log_saved = TRUE], "rm", c)]

\* _docker_remove_container(c): 'docker logs', the log file written, then
\* 'docker container rm', which fails on a running container; failed is the
\* step that fails, if any
DockerRemoveContainer(d, c, failed) ==
    IF ~(c \in DOMAIN d.cons /\ ~d.cons[c].removed) \/ failed = "logs"
    THEN [raised |-> "DockerException", d |-> Touch(d, "logs", c)]
    ELSE IF failed = "write_log"
    THEN [raised |-> "OSError", d |-> Touch(d, "logs", c)]
    ELSE LET d1 == Touch([d EXCEPT !.cons[c].log_saved = TRUE], "logs", c)
         IN IF d1.cons[c].running \/ failed = "rm"
            THEN [raised |-> "DockerException", d |-> Touch(d1, "rm", c)]
            ELSE [raised |-> None, d |-> Touch([d1 EXCEPT !.cons[c].removed = TRUE], "rm", c)]

\* a handler spawned on the IOLoop with its arguments
SpawnHandler(d, handler, build_info, exit_code) ==
    [d EXCEPT !.spawned = @ (+) SetToBag({[handler |-> handler,
                                           build_key |-> build_info.build_key,
                                           container_id |-> build_info.container_id,
                                           exit_code |-> exit_code]})]

\* schedule_build(build_key, ..., callback)
DockerScheduleBuildCall(d, build_key, callback, failed) ==
    LET build_info == d.info[build_key]
        killed == DockerKillContainer(d, build_info.container_id, "schedule_build",
                                      failed # "kill")
        removed == IF killed.raised = None
                   THEN DockerRemoveContainer(killed.d, build_info.container_id, failed)
                   ELSE killed
        d1 == IF build_info # NoInfo /\ build_info.status = "running"
              THEN SpawnHandler(removed.d, "cancel", build_info, NoExitCode)
              ELSE d
        add_queue == ~(build_info # NoInfo /\ build_info.status = "pending")
        d2 == IF build_info = NoInfo THEN [d1 EXCEPT !.keys = @ \cup {build_key}] ELSE d1
        d3 == IF callback
              THEN [d2 EXCEPT !.last_callback_id = @ + 1,
                              !.callbacks = @ \cup {d2.last_callback_id + 1}]
              ELSE d2
        new_info == [status |-> "pending", build_key |-> build_key,
                     callback_id |-> IF callback THEN d3.last_callback_id ELSE 0,
                     container_id |-> NoContainer]
        d4 == [d3 EXCEPT !.info[build_key] = new_info, !.schedules = @ + 1]
    IN IF build_info # NoInfo /\ build_info.status = "running"
          /\ removed.raised \notin {None, "DockerException"}
       THEN \* only DockerException is caught, lines 367-372
            removed.d
       ELSE IF add_queue THEN [d4 EXCEPT !.queue = Append(@, build_key)] ELSE d4

\* _run_loop from cache.pop to the wait for a free slot
DockerRunLoopPop(d) ==
    LET build_key == Head(d.queue)
        build_info == d.info[build_key]
        d1 == [d EXCEPT !.queue = Tail(@)]
    IN IF build_info = NoInfo THEN d1 ELSE [d1 EXCEPT !.popped = build_info]

\* _run_loop once a slot is free: the begin handlers are spawned, the
\* container is run and the build info is stored
DockerRunLoopStart(d, docker_ok) ==
    LET build_info == d.popped
        d1 == SpawnHandler(d, "begin", build_info, NoExitCode)
        container_id == Len(d.cons) + 1
        d2 == IF docker_ok
              THEN [d1 EXCEPT !.cons = Append(@, [build_key |-> build_info.build_key,
                                                   name |-> ContainerName(container_id),
                                                   running |-> TRUE, exit_code |-> NoExitCode,
                                                   age_exceeded |-> FALSE, removed |-> FALSE,
                                                   log_saved |-> FALSE,
                                                   killed_by |-> None]),
                              !.busy = @ + 1]
              ELSE d1
        stored == [build_info EXCEPT
                       !.container_id = IF docker_ok THEN container_id ELSE NoContainer,
                       !.status = IF docker_ok THEN "running" ELSE "error"]
    IN [d2 EXCEPT !.info[build_info.build_key] = stored, !.popped = NoInfo]

\* the build info _status_loop has for container c: build_info_by_container_id
\* is made from the cache before the containers are walked
BuildInfoByContainerId(d0, c) ==
    LET found == {k \in d0.keys : d0.info[k] # NoInfo /\ d0.info[k].container_id = c}
    IN IF found = {} THEN NoInfo ELSE d0.info[CHOOSE k \in found : TRUE]

\* the failing step of _docker_remove_container(c) under failure
RemoveFailed(failure, c) ==
    IF failure.container = c /\ failure.cmd \in {"logs", "write_log", "rm"}
    THEN failure.cmd ELSE None

\* _status_loop for container c with the try of lines 203-208 left out: an
\* exception of the removal ends the coroutine
StatusLoopContainer_RemoveNotCaught(d, d0, c, failure) ==
    LET removed == DockerRemoveContainer(d, c, RemoveFailed(failure, c))
    IN IF d0.cons[c].running THEN d
       ELSE IF removed.raised # None
       THEN [removed.d EXCEPT !.status_loop_alive = FALSE]
       ELSE removed.d

\* _status_loop: what is done for the listed container c
StatusLoopContainer(d, d0, c, failure) ==
    LET container == ListedContainer(d0, c, failure)
        build_info == BuildInfoByContainerId(d0, c)
        exit_code == container.exit_code
        d1 == IF build_info # NoInfo /\ ~container.running
              THEN LET e1 == [d EXCEPT !.busy = @ - 1,
                                       !.info[build_info.build_key] = NoInfo,
                                       !.keys = @ \ {build_info.build_key}]
                       e2 == SpawnHandler(e1, "end", build_info, exit_code)
                   IN IF build_info.callback_id # 0 /\ build_info.callback_id \in e2.callbacks
                      THEN SpawnHandler([e2 EXCEPT !.callbacks = @ \ {build_info.callback_id}],
                                        "callback", build_info, exit_code)
                      ELSE e2
              ELSE d
    IN IF ~container.running
       THEN \* except Exception, lines 207-208: logged
            DockerRemoveContainer(d1, c, RemoveFailed(failure, c)).d
       ELSE d1

\* _status_loop over the containers listed, from container c down; an
\* exception that leaves the for loop leaves the coroutine
RECURSIVE StatusLoopFrom(_, _, _, _, _)
StatusLoopFrom(d, d0, listed, c, failure) ==
    IF c = 0 \/ ~d.status_loop_alive THEN d
    ELSE StatusLoopFrom(IF c \in listed THEN StatusLoopContainer(d, d0, c, failure) ELSE d,
                        d0, listed, c - 1, failure)

\* one pass of _status_loop; a pass whose listing fails walks no container
DockerStatusLoopPass(d, failure) ==
    IF Failed(failure, "ls", 0) THEN d
    ELSE LET listed == DockerListContainers(d)
             d0 == TouchWaited(d, listed)
         IN StatusLoopFrom(d0, d0, listed, Len(d.cons), failure)

\* _cleanup_loop over the containers listed, from container c down
RECURSIVE CleanupLoopFrom(_, _, _, _)
CleanupLoopFrom(d, listed, c, failure) ==
    IF c = 0 \/ ~d.cleanup_loop_alive THEN d
    ELSE CleanupLoopFrom(
             IF c \in listed /\ d.cons[c].age_exceeded /\ d.cons[c].running
             THEN \* except Exception, lines 238-239: logged
                  DockerKillContainer(d, c, "cleanup_loop", ~Failed(failure, "kill", c)).d
             ELSE d,
             listed, c - 1, failure)

\* one pass of _cleanup_loop (the removal of old log files changes no state
\* of the model); a pass whose listing fails walks no container
DockerCleanupLoopPass(d, failure) ==
    IF Failed(failure, "ls", 0) THEN d
    ELSE LET listed == DockerListContainers(d)
         IN CleanupLoopFrom(TouchWaited(d, listed), listed, Len(d.cons), failure)

\* ---------------------------------------------------------------- build.py
\* number of Build objects of build.py constructed in a behaviour
MaxBuildsPy == 2

\* build.py after import: no build, _build_queue = [], _current_builds_by_board = {}
InitBuildPy ==
    [builds |-> <<>>, queue |-> <<>>, current |-> <<>>, tasks |-> <<>>,
     exited |-> {}, raised |-> None, call |-> NoCall]

\* build.py, Build.__init__
BuildPyInit(repo_service, typ, board, pr_no, custom_cmd, callback) ==
    [type |-> typ, repo_service |-> repo_service, board |-> board, pr_no |-> pr_no,
     custom_cmd |-> custom_cmd, container |-> NoContainer, exit_code |-> NoExitCode,
     begin_time |-> None, end_time |-> None, callback |-> callback,
     state_change_callbacks |-> <<>>]

\* build.py, Build.get_key: '{}/{}/{}' of the service, the identifier and the
\* board; hashlib.sha1 of a str raises TypeError
BuildPyGetKey(bd) ==
    IF bd.type = TYPE_PR
    THEN [raised |-> None, key |-> <<bd.repo_service, bd.pr_no, bd.board>>]
    ELSE [raised |-> "TypeError", key |-> <<>>]

\* build.py, Build.get_state
BuildPyGetState(bd) ==
    IF bd.begin_time = None THEN STATE_PENDING
    ELSE IF bd.end_time = None THEN STATE_RUNNING
    ELSE STATE_ENDED

\* build.py, Build._run_state_change_callbacks
BuildPyRunStateChangeCallbacks(p, b) ==
    LET state == BuildPyGetState(p.builds[b])
        cbs == p.builds[b].state_change_callbacks
    IN [p EXCEPT !.tasks = @ \o [i \in 1..Len(cbs) |->
                                    [kind |-> cbs[i], build |-> b, state |-> state]]]

\* build.py, Build.set_begin(container)
BuildPySetBegin(p, b, container) ==
    IF p.builds[b].begin_time # None
    THEN [p EXCEPT !.raised = "BuildException"]
    ELSE BuildPyRunStateChangeCallbacks(
             [p EXCEPT !.builds[b].begin_time = Time,
                       !.builds[b].container = container], b)

\* build.py, Build.set_end, lines 109-114: the completion callback, and the
\* build leaves the running table
BuildPySetEndFinish(p, b) ==
    LET board == p.builds[b].board
        p1 == IF p.builds[b].callback
              THEN [p EXCEPT !.tasks = Append(@, [kind |-> "callback", build |-> b,
                                                  state |-> STATE_ENDED])]
              ELSE p
    IN IF board \in DOMAIN p1.current /\ p1.current[board] = b
       THEN [p1 EXCEPT !.current = [x \in (DOMAIN p1.current) \ {board} |-> p1.current[x]]]
       ELSE p1

\* build.py, Build.set_end(exit_code): the test of line 95 is
\* 'self.end_time is None'
BuildPySetEnd(p, b, exit_code) ==
    IF p.builds[b].begin_time = None
    THEN [p EXCEPT !.raised = "BuildException"]
    ELSE IF p.builds[b].end_time = None
    THEN [p EXCEPT !.raised = "BuildException"]
    ELSE LET p1 == [p EXCEPT !.builds[b].exit_code = exit_code,
                             !.builds[b].end_time = Time]
         IN IF exit_code \notin -2..1
            THEN \* ['successfully', 'with error'][exit_code], line 102
                 [p1 EXCEPT !.raised = "IndexError"]
            ELSE BuildPySetEndFinish(BuildPyRunStateChangeCallbacks(p1, b), b)

\* build.py, _schedule_build, lines 186-191: the index of the first queued
\* build with the key of the new build (0 when there is none)
RECURSIVE BuildPyFindKey(_, _, _)
BuildPyFindKey(p, bd, i) ==
    IF i > Len(p.queue) THEN [raised |-> None, index |-> 0]
    ELSE IF BuildPyGetKey(bd).raised # None
    THEN [raised |-> BuildPyGetKey(bd).raised, index |-> 0]
    ELSE IF BuildPyGetKey(p.builds[p.queue[i]]).raised # None
    THEN [raised |-> BuildPyGetKey(p.builds[p.queue[i]]).raised, index |-> 0]
    ELSE IF BuildPyGetKey(bd).key = BuildPyGetKey(p.builds[p.queue[i]]).key
    THEN [raised |-> None, index |-> i]
    ELSE BuildPyFindKey(p, bd, i + 1)

\* build.py, _schedule_build
BuildPyScheduleBuild(p, bd) ==
    LET b == Len(p.builds) + 1
        p1 == [p EXCEPT !.builds = Append(@, bd)]
        found == BuildPyFindKey(p1, bd, 1)
        q == IF found.index > 0
             THEN SelectSeq(p1.queue, LAMBDA x : x # p1.queue[found.index])
             ELSE p1.queue
    IN IF found.raised # None
       THEN [p1 EXCEPT !.raised = found.raised]
       ELSE [p1 EXCEPT !.queue = Append(q, b)]

\* build.py, _run_loop: one pass of the loop body after gen.sleep(1)
BuildPyRunLoopPass(p, launch) ==
    LET build == Head(p.queue)
        board == p.builds[build].board
        p1 == [p EXCEPT !.queue = Tail(@)]
        old == p1.current
        p2 == [p1 EXCEPT !.current = [x \in DOMAIN old \cup {board} |->
                                         IF x = board THEN build ELSE old[x]]]
    IN IF board \in DOMAIN p1.current
       THEN [p1 EXCEPT !.queue = Append(@, build)]
       ELSE IF launch = "DockerException"
       THEN p2
       ELSE BuildPySetBegin(p2, build, build)

\* build.py, Build._on_container_state_change
BuildPyOnContainerStateChange(p, b, state, exit_code) ==
    IF state = "exited" THEN BuildPySetEnd(p, b, exit_code) ELSE p

\* ------------------------------------------------------- building.py: Build
\* Build.get_state
GetState(bd) ==
    IF bd.begin_time = None THEN STATE_PENDING
    ELSE IF bd.end_time = None THEN STATE_RUNNING
    ELSE STATE_ENDED

\* 'cmd' + hashlib.sha1(custom_cmd.encode()).hexdigest()[:8]
CmdIdentifier(cmd) ==
    IF cmd = "git push --delete origin nightly-dev" THEN "cmd87ca8a49"
    ELSE "cmd243752d1"

\* Build.get_identifier
GetIdentifier(bd) ==
    IF bd.type = TYPE_PR THEN bd.pr_no
    ELSE IF bd.type = TYPE_NIGHTLY THEN bd.branch
    ELSE IF bd.type = TYPE_TAG THEN bd.tag
    ELSE CmdIdentifier(bd.custom_cmd)

\* Build.get_key
GetKey(bd) == <<bd.repo_service, GetIdentifier(bd), bd.board>>

\* _run_state_change_callbacks going through the observers last to first
RunStateChangeCallbacks_Reversed(m, b) ==
    LET state == GetState(m.builds[b])
        cbs == m.builds[b].state_change_callbacks
        n == Len(cbs)
        spawned == [i \in 1..n |-> [kind |-> cbs[n + 1 - i], build |-> b, state |-> state]]
    IN [m EXCEPT !.tasks = @ \o spawned,
                 !.dispatched[b] = @ \o spawned]

\* Build._run_state_change_callbacks: one spawn_callback per observer, in
\* registration order, with the state read at the time of the call
RunStateChangeCallbacks(m, b) ==
    LET state == GetState(m.builds[b])
        cbs == m.builds[b].state_change_callbacks
        spawned == [i \in 1..Len(cbs) |-> [kind |-> cbs[i], build |-> b, state |-> state]]
    IN [m EXCEPT !.tasks = @ \o spawned,
                 !.dispatched[b] = @ \o spawned]

\* Build.set_begin(container)
SetBegin(m, b, container) ==
    IF m.builds[b].begin_time # None
    THEN [m EXCEPT !.raised = "BuildException"]
    ELSE RunStateChangeCallbacks(
             [m EXCEPT !.builds[b].begin_time = Time,
                       !.builds[b].container = container], b)

\* set_end that keeps the loop device
SetEndReleaseLoopDev_Keep(m, b) == m

\* Build.set_end, lines 115-120: release the loop device, errors logged
SetEndReleaseLoopDev(m, b) ==
    IF m.builds[b].loop_dev # NoLoopDev
    THEN [m EXCEPT !.loop_devs = ReleaseLoopDev(m.loop_devs, m.builds[b].loop_dev).devs]
    ELSE m

\* set_end that leaves the build in the running table
SetEndPopCurrent_Keep(m, b) == m

\* Build.set_end, lines 164-168: leave the running table
SetEndPopCurrent(m, b) ==
    LET board == m.builds[b].board
    IN IF board \in DOMAIN m.current /\ m.current[board] = b
       THEN [m EXCEPT !.current = [x \in (DOMAIN m.current) \ {board} |-> m.current[x]]]
       ELSE m

\* Build.set_end, lines 160-162: the completion callback of run_custom_cmd
SetEndSpawnCallback(m, b) ==
    IF m.builds[b].callback # None
    THEN [m EXCEPT !.tasks = Append(@, [kind |-> "callback", build |-> b, state |-> STATE_ENDED])]
    ELSE m

\* bool(exit_code)
Truthy(exit_code) == exit_code \notin {0, NoExitCode}

\* set_end with the observers run before end_time is recorded
SetEnd_CallbacksBeforeEndTime(m, b, exit_code) ==
    IF m.builds[b].begin_time = None
    THEN [m EXCEPT !.raised = "BuildException"]
    ELSE IF m.builds[b].end_time # None
    THEN [m EXCEPT !.raised = "BuildException"]
    ELSE LET m1 == RunStateChangeCallbacks(SetEndReleaseLoopDev(m, b), b)
             m2 == [m1 EXCEPT !.builds[b].exit_code = exit_code,
                              !.builds[b].end_time = Time]
         IN SetEndPopCurrent(SetEndSpawnCallback(m2, b), b)

\* set_end without the test of building.py lines 111-112 (already ended)
SetEnd_NoEndedTest(m, b, exit_code) ==
    IF m.builds[b].begin_time = None
    THEN [m EXCEPT !.raised = "BuildException"]
    ELSE LET m1 == SetEndReleaseLoopDev(m, b)
             m2 == [m1 EXCEPT !.builds[b].exit_code = exit_code,
                              !.builds[b].end_time = Time]
         IN SetEndPopCurrent(SetEndSpawnCallback(RunStateChangeCallbacks(m2, b), b), b)

\* Build.set_end(exit_code)
SetEnd(m, b, exit_code) ==
    IF m.builds[b].begin_time = None
    THEN [m EXCEPT !.raised = "BuildException"]
    ELSE IF m.builds[b].end_time # None
    THEN [m EXCEPT !.raised = "BuildException"]
    ELSE LET m1 == SetEndReleaseLoopDev(m, b)
             m2 == [m1 EXCEPT !.builds[b].exit_code = exit_code,
                              !.builds[b].end_time = Time]
         IN IF Truthy(exit_code) /\ m2.builds[b].container = NoContainer
            THEN \* self.container.id of None, line 153
                 [m2 EXCEPT !.raised = "AttributeError"]
            ELSE SetEndPopCurrent(SetEndSpawnCallback(RunStateChangeCallbacks(m2, b), b), b)

\* -------------------------------------------------- building.py: BuildGroup
GroupBuilds(m, g) == {m.groups[g].builds[x] : x \in DOMAIN m.groups[g].builds}

\* BuildGroup.get_completed_builds
GetCompletedBuilds(m, g) ==
    {b \in GroupBuilds(m, g) : GetState(m.builds[b]) = STATE_ENDED}

\* BuildGroup.get_remaining_builds
GetRemainingBuilds(m, g) ==
    {b \in GroupBuilds(m, g) : GetState(m.builds[b]) \in {STATE_RUNNING, STATE_PENDING}}

\* get_failed_builds that tests the state and not the exit code
GetFailedBuilds_NoExitCode(m, g) ==
    {b \in GroupBuilds(m, g) : GetState(m.builds[b]) = STATE_RUNNING}

\* BuildGroup.get_failed_builds
GetFailedBuilds(m, g) ==
    {b \in GroupBuilds(m, g) :
        GetState(m.builds[b]) = STATE_ENDED /\ Truthy(m.builds[b].exit_code)}

\* BuildGroup._handle_build_begin
HandleBuildBegin(m, g, b) ==
    IF ~m.groups[g].first_build_begun
    THEN [m EXCEPT !.groups[g].first_build_begun = TRUE,
                   !.tasks = Append(@, [kind |-> "handle_first_build_begin",
                                        build |-> b, state |-> STATE_RUNNING])]
    ELSE m

\* _handle_build_end without the _last_build_ended latch
HandleBuildEnd_NoLatch(m, g, b) ==
    IF GetRemainingBuilds(m, g) = {}
    THEN [m EXCEPT !.groups[g].last_build_ended = TRUE,
                   !.tasks = Append(@, [kind |-> "handle_last_build_end",
                                        build |-> b, state |-> STATE_ENDED])]
    ELSE m

\* BuildGroup._handle_build_end
HandleBuildEnd(m, g, b) ==
    IF GetRemainingBuilds(m, g) = {} /\ ~m.groups[g].last_build_ended
    THEN [m EXCEPT !.groups[g].last_build_ended = TRUE,
                   !.tasks = Append(@, [kind |-> "handle_last_build_end",
                                        build |-> b, state |-> STATE_ENDED])]
    ELSE m

\* _on_build_state_change that looks for the first begin when a build ends
GroupOnBuildStateChange_BeginAtEnd(m, b, state) ==
    LET g == m.builds[b].group
    IN IF state = STATE_ENDED
       THEN HandleBuildEnd(HandleBuildBegin(m, g, b), g, b)
       ELSE m

\* BuildGroup._on_build_state_change(build, state)
GroupOnBuildStateChange(m, b, state) ==
    LET g == m.builds[b].group
    IN IF state = STATE_RUNNING THEN HandleBuildBegin(m, g, b)
       ELSE IF state = STATE_ENDED THEN HandleBuildEnd(m, g, b)
       ELSE m

\* BuildGroup.add_build
AddBuild(m, g, b) ==
    LET board == m.builds[b].board
        old == m.groups[g].builds
    IN IF board \in DOMAIN old
       THEN [m EXCEPT !.raised = "BuildException"]
       ELSE [m EXCEPT !.groups[g].builds =
                          [x \in DOMAIN old \cup {board} |-> IF x = board THEN b ELSE old[x]],
                      !.builds[b].state_change_callbacks =
                          Append(@, "BuildGroup._on_build_state_change")]

\* Build.__init__ that falls back on the first slot when none is free
BuildInit_FirstSlotWhenNoneFree(m, f) ==
    LET acq == AcquireLoopDev(m.loop_devs)
        b == Len(m.builds) + 1
        bd == [repo_service |-> f.repo_service, group |-> f.group, type |-> f.type,
               board |-> f.board, commit_id |-> f.commit_id,
               pr_no |-> f.pr_no, branch |-> f.branch, tag |-> f.tag,
               version |-> f.version,
               custom_cmd |-> f.custom_cmd, interactive |-> f.interactive,
               container |-> NoContainer, exit_code |-> NoExitCode,
               begin_time |-> None, end_time |-> None,
               loop_dev |-> IF acq.raised = None THEN acq.result
                            ELSE LoopDevPath(LoopDevLo),
               callback |-> f.callback, future |-> None,
               state_change_callbacks |-> <<>>]
        m1 == [m EXCEPT !.builds = Append(@, bd),
                        !.loop_devs = acq.devs,
                        !.launched = Append(@, None),
                        !.dispatched = Append(@, <<>>)]
    IN IF f.group # NoGroup THEN AddBuild(m1, f.group, b) ELSE m1

\* Build.__init__: f holds the constructor's arguments
BuildInit(m, f) ==
    LET acq == AcquireLoopDev(m.loop_devs)
        b == Len(m.builds) + 1
        bd == [repo_service |-> f.repo_service, group |-> f.group, type |-> f.type,
               board |-> f.board, commit_id |-> f.commit_id,
               pr_no |-> f.pr_no, branch |-> f.branch, tag |-> f.tag,
               version |-> f.version,
               custom_cmd |-> f.custom_cmd, interactive |-> f.interactive,
               container |-> NoContainer, exit_code |-> NoExitCode,
               begin_time |-> None, end_time |-> None,
               loop_dev |-> acq.result,
               callback |-> f.callback, future |-> None,
               state_change_callbacks |-> <<>>]
        m1 == [m EXCEPT !.builds = Append(@, bd),
                        !.loop_devs = acq.devs,
                        !.launched = Append(@, None),
                        !.dispatched = Append(@, <<>>)]
    IN IF f.group # NoGroup THEN AddBuild(m1, f.group, b) ELSE m1

\* ------------------------------------------------- building.py: scheduling
RemoveAt(q, i) == [j \in 1..(Len(q) - 1) |-> IF j < i THEN q[j] ELSE q[j + 1]]

\* _schedule_build that appends without looking for a queued build of the key
ScheduleBuild_NoReplace(m, f) ==
    LET m1 == BuildInit(m, f)
    IN [m1 EXCEPT !.queue = Append(@, Len(m1.builds))]

\* _schedule_build: the new build is the last of m.builds afterwards
ScheduleBuild(m, f) ==
    LET m1 == BuildInit(m, f)
        b == Len(m1.builds)
        same == {i \in 1..Len(m1.queue) : GetKey(m1.builds[m1.queue[i]]) = GetKey(m1.builds[b])}
        q1 == IF same # {} THEN RemoveAt(m1.queue, LowestOf(same)) ELSE m1.queue
    IN [m1 EXCEPT !.queue = Append(q1, b)]

\* the arguments the typed helpers pass to _schedule_build
BuildArgs(service, g, typ, board) ==
    [repo_service |-> service, group |-> g, type |-> typ, board |-> board,
     commit_id |-> None, pr_no |-> None, branch |-> None, tag |-> None,
     version |-> None,
     custom_cmd |-> None, interactive |-> FALSE, callback |-> None]

\* RepoService._register_build
RegisterBuild(m, b) ==
    [m EXCEPT !.builds[b].state_change_callbacks =
                  Append(@, "RepoService._on_build_state_change")]

\* the loop "for board in settings.BOARDS: schedule...; self._register_build(build)"
RECURSIVE ScheduleGroupBuilds(_, _, _)
ScheduleGroupBuilds(m, f, i) ==
    IF i > Len(BOARDS) THEN m
    ELSE LET m1 == ScheduleBuild(m, [f EXCEPT !.board = BOARDS[i]])
         IN ScheduleGroupBuilds(RegisterBuild(m1, Len(m1.builds)), f, i + 1)

\* building.BuildGroup() followed by the loop over the boards and
\* _register_build_group
ScheduleGroup(m, f) ==
    LET g == Len(m.groups) + 1
        m1 == [m EXCEPT !.groups = Append(@, [builds |-> <<>>,
                                               first_build_begun |-> FALSE,
                                               last_build_ended |-> FALSE]),
                        !.handled = Append(@, [first_begin |-> 0, last_end |-> 0,
                                                statuses |-> <<>>])]
    IN ScheduleGroupBuilds(m1, [f EXCEPT !.group = g], 1)

\* The IOLoop runs the callbacks queued with spawn_callback, in FIFO order,
\* before it turns to a timer or a socket that became ready after them: a
\* pass of the scheduling loop or a request handler starts with no callback
\* pending.  (Neither reads or writes what a pending callback writes or
\* reads, except through a container exit, which is free to come at any
\* time.)
IOLoopIdle == tasks = <<>>

\* RepoService.handle_pull_request_open / handle_pull_request_update, with
\* settings.PULL_REQUESTS on
HandlePullRequest(pr_no) ==
    /\ mode = "server"
    /\ IOLoopIdle
    /\ Len(builds) + Len(BOARDS) <= MaxBuilds
    /\ Commit(ScheduleGroup(Cur, [BuildArgs("github", NoGroup, TYPE_PR, None)
                                      EXCEPT !.pr_no = pr_no]))
    /\ UNCHANGED mode

\* RepoService.schedule_nightly_build(commit_id, branch) with a commit id
ScheduleNightly(m, commit_id, branch) ==
    LET m1 == ScheduleGroup(m, [BuildArgs("github", NoGroup, TYPE_NIGHTLY, None)
                                    EXCEPT !.commit_id = commit_id, !.branch = branch])
    IN [m1 EXCEPT !.last_nightly_commit[branch] = commit_id]

\* handle_commit that schedules whatever settings.NIGHTLY_FIXED_HOUR is
HandleCommitCall_NoFixedHourTest(m, commit_id, branch) ==
    LET m1 == [m EXCEPT !.last_commit[branch] = commit_id]
    IN IF branch \notin RangeOf(NIGHTLY_BRANCHES) THEN m1
       ELSE ScheduleNightly(m1, commit_id, branch)

\* RepoService.handle_commit(commit_id, branch)
HandleCommitCall(m, commit_id, branch) ==
    LET m1 == [m EXCEPT !.last_commit[branch] = commit_id]
    IN IF branch \notin RangeOf(NIGHTLY_BRANCHES) THEN m1
       ELSE IF m1.nightly_fixed_hour = NoHour THEN ScheduleNightly(m1, commit_id, branch)
       ELSE m1

\* a commit to a nightly branch arrives with no fixed hour set: handle_commit
\* goes on to RepoService.schedule_nightly_build
ScheduleNightlyBuild(branch) ==
    /\ mode = "server"
    /\ IOLoopIdle
    /\ nightly_fixed_hour = NoHour
    /\ Len(builds) + Len(BOARDS) <= MaxBuilds
    /\ Commit(HandleCommitCall(Cur, "c1", branch))
    /\ UNCHANGED mode

\* building.run_custom_cmd up to "yield future"
RunCustomCmdCall(m, service, custom_cmd, interactive, board) ==
    ScheduleBuild(m, [BuildArgs(service, NoGroup, TYPE_CUSTOM, board)
                         EXCEPT !.custom_cmd = custom_cmd,
                                !.interactive = interactive,
                                !.callback = "future.set_result"])

\* a repository service adapter runs a custom command (create_release)
RunCustomCmd(custom_cmd) ==
    /\ mode = "server"
    /\ IOLoopIdle
    /\ Len(builds) + 1 <= MaxBuilds
    /\ Commit(RunCustomCmdCall(Cur, "github", custom_cmd, FALSE, DummyBoard))
    /\ UNCHANGED mode

\* main.shell(board): the only build of a process started as "shell"
Shell(board) ==
    /\ mode = "shell"
    /\ builds = <<>>
    /\ Commit(RunCustomCmdCall(Cur, None, "/bin/bash", TRUE, board))
    /\ UNCHANGED mode

QueuedBuilds == RangeOf(build_queue)

\* dockerctl.run_container returning: the container is registered as
\* running (no exit code); an interactive run returns no container
RunContainer(m, container) ==
    IF container = NoContainer THEN m
    ELSE LET old == m.containers
         IN [m EXCEPT !.containers = [c \in DOMAIN old \cup {container} |->
                                         IF c = container THEN NoExitCode ELSE old[c]]]

\* the admission without lines 400-401 (no container: the build has ended)
RunLoopAdmit_NoEndWithoutContainer(m, b, launch) ==
    LET bd == m.builds[b]
        old == m.current
        m1 == [m EXCEPT !.current = [x \in DOMAIN old \cup {bd.board} |->
                                        IF x = bd.board THEN b ELSE old[x]],
                        !.group = bd.group,
                        !.launched[b] = launch]
    IN IF launch = "DockerException"
       THEN m1
       ELSE LET container == IF bd.interactive THEN NoContainer ELSE b
            IN SetBegin(RunContainer(m1, container), b, container)

\* _run_loop, lines 358-401: admit the dequeued build and launch its
\* container; launch is how dockerctl.run_container ends
RunLoopAdmit(m, b, launch) ==
    LET bd == m.builds[b]
        old == m.current
        m1 == [m EXCEPT !.current = [x \in DOMAIN old \cup {bd.board} |->
                                        IF x = bd.board THEN b ELSE old[x]],
                        !.group = bd.group,
                        !.launched[b] = launch]
    IN IF launch = "DockerException"
       THEN m1
       ELSE LET container == IF bd.interactive THEN NoContainer ELSE b
                m2 == SetBegin(RunContainer(m1, container), b, container)
            IN IF m2.raised # None THEN m2
               ELSE IF container = NoContainer THEN SetEnd(m2, b, 0)
               ELSE m2

\* the pass without the test of lines 348-351 (board already building)
RunLoopPass_NoBoardCheck(m, launch) ==
    LET m0 == [m EXCEPT !.group = IF DOMAIN m.current = {} THEN NoGroup ELSE @]
        queued_boards == {m.builds[b].board : b \in RangeOf(m.queue)}
        queued_groups == {m.builds[b].group : b \in RangeOf(m.queue)}
        build == Head(m.queue)
        m1 == [m0 EXCEPT !.queue = Tail(@)]
    IN IF queued_boards \subseteq DOMAIN m0.current
       THEN m0
       ELSE IF m0.group # NoGroup /\ \A g \in queued_groups : g # m0.group
       THEN m0
       ELSE IF m1.group # NoGroup /\ m.builds[build].group # m1.group
       THEN [m1 EXCEPT !.queue = Append(@, build)]
       ELSE RunLoopAdmit(m1, build, launch)

\* the pass without the build group tests of lines 337-342 and 353-356
RunLoopPass_NoGroupCheck(m, launch) ==
    LET m0 == [m EXCEPT !.group = IF DOMAIN m.current = {} THEN NoGroup ELSE @]
        queued_boards == {m.builds[b].board : b \in RangeOf(m.queue)}
        build == Head(m.queue)
        m1 == [m0 EXCEPT !.queue = Tail(@)]
    IN IF queued_boards \subseteq DOMAIN m0.current
       THEN m0
       ELSE IF m.builds[build].board \in DOMAIN m1.current
       THEN [m1 EXCEPT !.queue = Append(@, build)]
       ELSE RunLoopAdmit(m1, build, launch)

\* _run_loop, one pass of the loop body after gen.sleep(1)
RunLoopPass(m, launch) ==
    LET m0 == [m EXCEPT !.group = IF DOMAIN m.current = {} THEN NoGroup ELSE @]
        queued_boards == {m.builds[b].board : b \in RangeOf(m.queue)}
        queued_groups == {m.builds[b].group : b \in RangeOf(m.queue)}
        build == Head(m.queue)
        m1 == [m0 EXCEPT !.queue = Tail(@)]
    IN IF queued_boards \subseteq DOMAIN m0.current
       THEN m0
       ELSE IF m0.group # NoGroup /\ \A g \in queued_groups : g # m0.group
       THEN m0
       ELSE IF m.builds[build].board \in DOMAIN m1.current
       THEN [m1 EXCEPT !.queue = Append(@, build)]
       ELSE IF m1.group # NoGroup /\ m.builds[build].group # m1.group
       THEN [m1 EXCEPT !.queue = Append(@, build)]
       ELSE RunLoopAdmit(m1, build, launch)

\* _run_loop, lines 316-401: one turn of 'while True'; only the try of
\* lines 392-397 catches anything, so an exception that leaves the pass
\* leaves the coroutine, which the IOLoop logs and does not start again
RunLoopTurn(m, launch) ==
    LET r == RunLoopPass(m, launch)
    IN [r EXCEPT !.run_loop_alive = (r.raised = None)]

\* the loop without the test of lines 322-324 (wait for a free slot)
RunLoop_NoFreeSlotTest(launch) ==
    /\ run_loop_alive
    /\ IOLoopIdle
    /\ build_queue # <<>>
    /\ Commit(RunLoopTurn(Cur, launch))
    /\ UNCHANGED mode

RunLoop(launch) ==
    /\ run_loop_alive
    /\ IOLoopIdle
    /\ build_queue # <<>>
    /\ Cardinality(DOMAIN current_builds_by_board) < DOCKER_MAX_PARALLEL
    /\ Commit(RunLoopTurn(Cur, launch))
    /\ UNCHANGED mode

\* Build._on_container_state_change
OnContainerStateChange(m, b, state, exit_code) ==
    IF state = "exited" THEN SetEnd(m, b, exit_code) ELSE m

\* the status loop finds that running container c has exited with
\* exit_code, records it and spawns the container's observers
ContainerExited(c, exit_code) ==
    /\ c \in DOMAIN containers
    /\ containers[c] = NoExitCode
    /\ Commit([Cur EXCEPT !.containers[c] = exit_code,
                          !.tasks = Append(@, [kind |-> "Build._on_container_state_change",
                                               build |-> c, state |-> "exited"])])
    /\ UNCHANGED mode

\* ---------------------------------------- reposervices/__init__.py handlers
\* a call of the adapter's set_pending / set_success / set_failed
SetStatus(m, g, status, boards) ==
    [m EXCEPT !.handled[g].statuses = Append(@, [status |-> status, boards |-> boards])]

\* RepoService.handle_first_build_begin
HandleFirstBuildBegin(m, b) ==
    LET g == m.builds[b].group
    IN IF g = NoGroup THEN m
       ELSE LET m1 == [m EXCEPT !.handled[g].first_begin = @ + 1]
            IN IF GetCompletedBuilds(m1, g) = {}
               THEN SetStatus(m1, g, "pending", {})
               ELSE m1

\* RepoService.handle_build_end
HandleBuildEndService(m, b) ==
    LET g == m.builds[b].group
    IN IF GetRemainingBuilds(m, g) = {} THEN m
       ELSE SetStatus(m, g, "pending", {})

\* RepoService.handle_last_build_end up to its first suspension
HandleLastBuildEnd(m, b) ==
    LET g == m.builds[b].group
        failed_builds == GetFailedBuilds(m, g)
        m1 == [m EXCEPT !.handled[g].last_end = @ + 1]
    IN IF failed_builds = {}
       THEN SetStatus(m1, g, "success", {})
       ELSE SetStatus(m1, g, "failed", {m.builds[x].board : x \in failed_builds})

\* RepoService._on_build_state_change
ServiceOnBuildStateChange(m, b, state) ==
    IF state = STATE_RUNNING THEN m  \* handle_build_begin only logs
    ELSE IF state = STATE_ENDED THEN HandleBuildEndService(m, b)
    ELSE m

\* run_custom_cmd resumed by future.set_result(build)
FutureSetResult(m, b) ==
    [m EXCEPT !.builds[b].future =
                  IF Truthy(m.builds[b].exit_code) THEN "BuildException" ELSE "returned"]

\* the IOLoop runs the callback at the head of its queue
RunCallback(m, t) ==
    IF t.kind = "BuildGroup._on_build_state_change"
    THEN GroupOnBuildStateChange(m, t.build, t.state)
    ELSE IF t.kind = "RepoService._on_build_state_change"
    THEN ServiceOnBuildStateChange(m, t.build, t.state)
    ELSE IF t.kind = "handle_first_build_begin"
    THEN HandleFirstBuildBegin(m, t.build)
    ELSE IF t.kind = "handle_last_build_end"
    THEN HandleLastBuildEnd(m, t.build)
    ELSE IF t.kind = "Build._on_container_state_change"
    THEN OnContainerStateChange(m, t.build, t.state, m.containers[t.build])
    ELSE FutureSetResult(m, t.build)

RunTask ==
    /\ tasks # <<>>
    /\ Commit(RunCallback([Cur EXCEPT !.tasks = Tail(@)], Head(tasks)))
    /\ UNCHANGED mode

\* ------------------------------------------- reposervices: handle_release
\* settings.IMAGE_FILE_FORMATS
IMAGE_FILE_FORMATS == <<".gz", ".xz">>

\* the repository service adapters (settings.REPO_SERVICE)
Adapters == {"github", "gitlab", "bitbucket"}

\* the build types a release is made for (handle_last_build_end)
ReleaseTypes == {TYPE_NIGHTLY, TYPE_TAG}

\* the settings handle_release reads
ReleaseSettings(r) ==
    [adapter |-> r.adapter, upload_service_build_types |-> r.upload_service_build_types,
     s3_upload_build_types |-> r.s3_upload_build_types, release_script |-> r.release_script]

\* settings.py: REPO_SERVICE, UPLOAD_SERVICE_BUILD_TYPES, S3_UPLOAD_BUILD_TYPES,
\* RELEASE_SCRIPT
DefaultReleaseSettings ==
    [adapter |-> "github", upload_service_build_types |-> ReleaseTypes,
     s3_upload_build_types |-> {}, release_script |-> FALSE]

\* A regular expression of the kind RELEASE_TAG_REGEX is: a sequence of
\* items, each a character class repeated n times, in a capture group of its
\* own or in none.  settings.RELEASE_TAG_REGEX is \d{8}.
Digits == {DigitChars[d] : d \in DOMAIN DigitChars}
RELEASE_TAG_REGEX == <<[chars |-> Digits, n |-> 8, group |-> FALSE]>>

\* re.match(regex, s) from item i of the regex and character pos of s: whether
\* the items match at pos, and what the capture groups hold (m.groups())
RECURSIVE ReMatchFrom(_, _, _, _)
ReMatchFrom(regex, s, i, pos) ==
    IF i > Len(regex) THEN [matched |-> TRUE, groups |-> <<>>]
    ELSE LET item == regex[i]
             last == pos + item.n - 1
         IN IF last > Len(s) \/ \E k \in pos..last : s[k] \notin item.chars
            THEN [matched |-> FALSE, groups |-> <<>>]
            ELSE LET rest == ReMatchFrom(regex, s, i + 1, last + 1)
                 IN IF ~rest.matched THEN rest
                    ELSE [matched |-> TRUE,
                          groups |-> IF item.group
                                     THEN <<SubSeq(s, pos, last)>> \o rest.groups
                                     ELSE rest.groups]

\* re.match(regex, s): the match anchored at the start of s
ReMatch(regex, s) == ReMatchFrom(regex, s, 1, 1)

\* RepoService._prepare_version(tag); the empty regex is the falsy setting
PrepareVersion(regex, tag) ==
    IF regex = <<>> THEN tag
    ELSE LET m == ReMatch(regex, tag)
         IN IF ~m.matched THEN tag
            ELSE IF Len(m.groups) < 2 THEN tag
            ELSE m.groups[1]

\* self._commit_ids_by_tag[tag] = commit_id
SetCommitIdByTag(by_tag, tag, commit_id) ==
    {e \in by_tag : e.tag # tag} \cup {[tag |-> tag, commit_id |-> commit_id]}

\* RepoService.handle_new_tag(commit_id, tag) with a commit id
HandleNewTagCall(m, commit_id, tag) ==
    LET regex == m.release.tag_regex
        m1 == [m EXCEPT !.release.commit_ids_by_tag = SetCommitIdByTag(@, tag, commit_id)]
    IN IF regex = <<>> \/ ~ReMatch(regex, tag).matched THEN m1
       ELSE ScheduleGroup(m1, [BuildArgs("github", NoGroup, TYPE_TAG, None)
                                   EXCEPT !.commit_id = commit_id, !.tag = tag,
                                          !.version = PrepareVersion(regex, tag)])

\* no tag (None or the empty string), no .image_files file, and the
\* image_files attribute left None
NoTag == <<>>
NoListing == [exists |-> FALSE, lines |-> <<>>]
NoImageFiles == [gathered |-> FALSE, by_fmt |-> {}]

\* before handle_release is called, for every choice of the settings
InitReleases ==
    {[adapter |-> a, upload_service_build_types |-> u, s3_upload_build_types |-> s3,
      release_script |-> script,
      pc |-> "idle", build_type |-> None, tag |-> NoTag, listings |-> <<>>, images |-> <<>>,
      release |-> None, found |-> FALSE, old_release |-> FALSE, old_tag |-> FALSE,
      custom_build |-> 0, todo |-> <<>>, stage |-> None, raised |-> None,
      requests |-> <<>>, scripts |-> <<>>,
      tag_regex |-> RELEASE_TAG_REGEX, commit_ids_by_tag |-> {}] :
        a \in Adapters, u \in SUBSET ReleaseTypes, s3 \in {{}, ReleaseTypes},
        script \in BOOLEAN}

\* f.endswith(fmt), a file name being the sequence of its dot separated parts
EndsWith(f, fmt) == Len(f) > 0 /\ f[Len(f)] = fmt

\* Build.set_end, lines 125-145: image_files of a regular build that ended
\* with exit code 0, listing being the lines of .image_files or None when
\* the file does not exist; the formats are the keys of the dictionary
GatherImageFiles(listing) ==
    IF ~listing.exists THEN NoImageFiles
    ELSE [gathered |-> TRUE,
          by_fmt |-> {IMAGE_FILE_FORMATS[i] : i \in {j \in DOMAIN IMAGE_FILE_FORMATS :
                          \E x \in DOMAIN listing.lines :
                              EndsWith(listing.lines[x], IMAGE_FILE_FORMATS[j])}}]

\* re.match(settings.RELEASE_TAG_REGEX, tag) with the pattern \d{8}
TagMatches(tag) ==
    /\ Len(tag) >= 8
    /\ \A i \in 1..8 : \E d \in DOMAIN DigitChars : DigitChars[d] = tag[i]

\* the loops of handle_release leaving a board at its first missing format
RECURSIVE ReleasePairs_BreakAtMissingFormat(_, _, _)
ReleasePairs_BreakAtMissingFormat(images, i, j) ==
    IF i > Len(BOARDS) THEN <<>>
    ELSE IF j > Len(IMAGE_FILE_FORMATS)
    THEN ReleasePairs_BreakAtMissingFormat(images, i + 1, 1)
    ELSE LET image_files == images[BOARDS[i]]
         IN IF ~image_files.gathered \/ image_files.by_fmt = {}
               \/ IMAGE_FILE_FORMATS[j] \notin image_files.by_fmt
            THEN ReleasePairs_BreakAtMissingFormat(images, i + 1, 1)
            ELSE <<<<BOARDS[i], IMAGE_FILE_FORMATS[j]>>>>
                     \o ReleasePairs_BreakAtMissingFormat(images, i, j + 1)

\* the (board, format) pairs the loops of handle_release reach, in order
RECURSIVE ReleasePairs(_, _, _)
ReleasePairs(images, i, j) ==
    IF i > Len(BOARDS) THEN <<>>
    ELSE IF j > Len(IMAGE_FILE_FORMATS) THEN ReleasePairs(images, i + 1, 1)
    ELSE LET image_files == images[BOARDS[i]]
         IN IF ~image_files.gathered \/ image_files.by_fmt = {}
            THEN ReleasePairs(images, i + 1, 1)
            ELSE IF IMAGE_FILE_FORMATS[j] \notin image_files.by_fmt
            THEN ReleasePairs(images, i, j + 1)
            ELSE <<<<BOARDS[i], IMAGE_FILE_FORMATS[j]>>>> \o ReleasePairs(images, i, j + 1)

\* a request made, with what identifies it in the claims: the board and
\* format uploaded, the draft flag of a release created, and whether the
\* old release and the old git tag exist when it is made
Request(r, kind, pair, draft) ==
    [kind |-> kind, board |-> pair[1], fmt |-> pair[2], draft |-> draft,
     old_release |-> r.old_release, old_tag |-> r.old_tag]

NoPair == <<None, None>>

\* handle_release from the pair at the head of todo up to its next yield
RECURSIVE ContinueUploads(_)
ContinueUploads(r) ==
    IF r.todo = <<>> THEN [r EXCEPT !.pc = "done"]
    ELSE IF r.stage = "service"
    THEN IF r.build_type \in r.upload_service_build_types
         THEN IF r.release = None /\ r.adapter # "bitbucket"
              THEN [r EXCEPT !.pc = "raised", !.raised = "TypeError"]
              ELSE [r EXCEPT !.pc = "upload"]
         ELSE ContinueUploads([r EXCEPT !.stage = "s3"])
    ELSE IF r.stage = "s3"
    THEN IF r.build_type \in r.s3_upload_build_types
         THEN [r EXCEPT !.pc = "s3_upload"]
         ELSE ContinueUploads([r EXCEPT !.stage = "script"])
    ELSE ContinueUploads([r EXCEPT !.scripts = IF r.release_script
                                                THEN Append(@, Head(r.todo)) ELSE @,
                                   !.todo = Tail(@), !.stage = "service"])

\* handle_release after "release = yield self.create_release(...)"
StartUploads(r, created) ==
    ContinueUploads([r EXCEPT !.release = created,
                              !.todo = ReleasePairs(r.images, 1, 1), !.stage = "service"])

\* create_release: "git push --delete origin {tag}" through run_custom_cmd
RemoveGitTag(m) ==
    LET m1 == RunCustomCmdCall(m, m.release.adapter, "git push --delete origin", FALSE, DummyBoard)
    IN [m1 EXCEPT !.release.pc = "remove_tag", !.release.custom_build = Len(m1.builds)]

\* RepoService.handle_release(commit_id, tag, version, branch,
\* boards_image_files, build_type) up to its first yield; old_release tells
\* whether the service has a release, and the repository a tag, of that name
HandleReleaseCall(m, build_type, tag, images, old_release) ==
    LET r == [m.release EXCEPT !.build_type = build_type, !.tag = tag, !.images = images,
                               !.old_release = old_release, !.old_tag = old_release]
    IN IF tag # NoTag /\ ~TagMatches(tag)
       THEN [m EXCEPT !.release = [r EXCEPT !.pc = "done"]]
       ELSE [m EXCEPT !.release =
                 [r EXCEPT !.tag = IF tag # NoTag THEN tag ELSE <<"nightly-", "dev">>,
                           !.pc = IF r.adapter = "bitbucket" THEN "create_tag" ELSE "lookup"]]

\* the body of the request that creates the release: GitLab.create_release
\* sets draft, GitHub.create_release does not
DraftOf(r) == r.adapter = "gitlab" /\ r.build_type = TYPE_TAG

\* the coroutine resumed with the outcome of the request it waits for
ReleaseResumeCall(m, outcome) ==
    LET r == m.release
        raise == [m EXCEPT !.release.pc = "raised", !.release.raised = "HTTPError"]
    IN IF r.pc = "lookup"
       THEN IF outcome # "ok"
            THEN [m EXCEPT !.release = StartUploads(r, None)]
            ELSE IF r.old_release
            THEN [m EXCEPT !.release.found = TRUE, !.release.pc = "delete"]
            ELSE IF r.adapter = "github" THEN RemoveGitTag(m)
            ELSE [m EXCEPT !.release.pc = "create"]
       ELSE IF r.pc = "delete"
       THEN IF outcome # "ok" THEN raise
            ELSE RemoveGitTag([m EXCEPT !.release.old_release = FALSE,
                                        !.release.requests =
                                            Append(@, Request(r, "delete_release", NoPair, FALSE))])
       ELSE IF r.pc = "create"
       THEN IF outcome # "ok" THEN raise
            ELSE [m EXCEPT !.release =
                     StartUploads([r EXCEPT !.requests =
                                       Append(@, Request(r, "create_release", NoPair,
                                                         DraftOf(r)))],
                                  "release")]
       ELSE IF r.pc = "create_tag"
       THEN [m EXCEPT !.release =
                StartUploads([r EXCEPT !.requests =
                                  IF outcome = "ok"
                                  THEN Append(@, Request(r, "create_tag", NoPair, FALSE))
                                  ELSE @],
                             None)]
       ELSE IF r.pc = "upload"
       THEN IF outcome # "ok" THEN raise
            ELSE [m EXCEPT !.release =
                     ContinueUploads([r EXCEPT !.requests =
                                          Append(@, Request(r, "upload", Head(r.todo), FALSE)),
                                      !.stage = "s3"])]
       ELSE IF outcome # "ok" THEN raise
            ELSE [m EXCEPT !.release =
                     ContinueUploads([r EXCEPT !.requests =
                                          Append(@, Request(r, "s3_upload", Head(r.todo), FALSE)),
                                      !.stage = "script"])]

\* create_release resumed by run_custom_cmd: the tag is gone when the
\* command succeeded; a failure is logged as a warning
CustomCmdReturned(m) ==
    LET future == m.builds[m.release.custom_build].future
    IN [m EXCEPT !.release.old_tag = IF future = "returned" THEN FALSE ELSE @,
                 !.release.pc = "create"]

\* ------------------------------------------------------------ specification
InitBuilding ==
    /\ mode \in {"server", "shell"}
    /\ builds = <<>>
    /\ groups = <<>>
    /\ build_queue = <<>>
    /\ current_builds_by_board = <<>>
    /\ current_build_group = NoGroup
    /\ loop_devs = InitLoopDevs
    /\ containers = <<>>
    /\ tasks = <<>>
    /\ raised = None
    /\ call = NoCall
    /\ launched = <<>>
    /\ dispatched = <<>>
    /\ handled = <<>>
    /\ suspended = {}
    /\ started = <<>>
    /\ released = <<>>
    /\ last_commit_by_branch = [branch \in Branches |-> None]
    /\ last_nightly_commit_by_branch = [branch \in Branches |-> None]
    /\ clock = [date |-> 1, hour |-> 0]
    /\ last_run_day = 0
    /\ fired = <<>>
    /\ docker = InitDocker
    /\ build_py = InitBuildPy
    /\ run_loop_alive = TRUE

\* the settings of settings.py
InitVars ==
    /\ InitBuilding
    /\ release \in {r \in InitReleases : ReleaseSettings(r) = DefaultReleaseSettings}

\* settings.NIGHTLY_FIXED_HOUR is None unless the deployment sets it
Init == InitVars /\ nightly_fixed_hour = NoHour

Next ==
    \/ \E pr_no \in PrNos : HandlePullRequest(pr_no)
    \/ \E branch \in NightlyBranches : ScheduleNightlyBuild(branch)
    \/ \E cmd \in CustomCmds : RunCustomCmd(cmd)
    \/ \E board \in {DummyBoard} \cup RangeOf(BOARDS) : Shell(board)
    \/ \E launch \in {"ok", "DockerException"} : RunLoop(launch)
    \/ \E b \in 1..MaxBuilds, exit_code \in ExitCodes : ContainerExited(b, exit_code)
    \/ RunTask

Spec == Init /\ [][Next]_vars

\* ------------------------------------- the service handlers as coroutines
\* Spec follows a lifecycle handler up to its first outbound call (yield
\* self._set_pending / _set_success / _set_failed), where the coroutine is
\* suspended; what it does when the call returns touches none of the state of
\* the scheduler.  SpecSvc follows the handlers to their end.

\* number of Build objects constructed in a behaviour of SpecSvc
MaxBuildsSvc == 2

\* the callbacks that enter a RepoService handler
IsServiceHandler(t) ==
    \/ t.kind \in {"handle_first_build_begin", "handle_last_build_end"}
    \/ t.kind = "RepoService._on_build_state_change" /\ t.state = STATE_ENDED

\* the callback at the head of the queue runs to its first suspension: a
\* handler that made an outbound status call is left waiting for it
RunCallbackSvc(m, t) ==
    LET m1 == RunCallback(m, t)
        g == m.builds[t.build].group
    IN IF ~IsServiceHandler(t) \/ g = NoGroup THEN m1
       ELSE LET m2 == [m1 EXCEPT !.started = Append(@, [kind |-> t.kind, build |-> t.build])]
                n == Len(m2.handled[g].statuses)
            IN IF n > Len(m.handled[g].statuses)
               THEN [m2 EXCEPT !.suspended = @ \cup
                        {[kind |-> t.kind, build |-> t.build, at |-> "status",
                          status |-> m2.handled[g].statuses[n].status]}]
               ELSE m2

RunTaskSvc ==
    /\ tasks # <<>>
    /\ Commit(RunCallbackSvc([Cur EXCEPT !.tasks = Tail(@)], Head(tasks)))
    /\ UNCHANGED mode

\* handle_last_build_end calling handle_release whatever the build type
CallsHandleRelease_AnyType(m, h) ==
    /\ h.kind = "handle_last_build_end"
    /\ h.at = "status"
    /\ h.status = "success"

\* handle_last_build_end after "yield self._set_success(build)", lines 176-181
CallsHandleRelease(m, h) ==
    /\ h.kind = "handle_last_build_end"
    /\ h.at = "status"
    /\ h.status = "success"
    /\ m.builds[h.build].type \in {TYPE_NIGHTLY, TYPE_TAG}

\* the outbound call a handler waits for returns (outcome "ok") or raises
ResumeHandler(m, h, outcome) ==
    LET m1 == [m EXCEPT !.suspended = @ \ {h}]
    IN IF outcome # "ok" THEN [m1 EXCEPT !.raised = outcome]
       ELSE IF CallsHandleRelease(m, h)
       THEN [m1 EXCEPT !.released = Append(@, m.builds[h.build].group),
                       !.suspended = @ \cup {[h EXCEPT !.at = "release"]}]
       ELSE m1

Resume(h, outcome) ==
    /\ h \in suspended
    /\ Commit(ResumeHandler(Cur, h, outcome))
    /\ UNCHANGED mode

SvcBound == Len(builds') <= MaxBuildsSvc

NextSvc ==
    \/ \E pr_no \in PrNos : HandlePullRequest(pr_no) /\ SvcBound
    \/ \E branch \in NightlyBranches : ScheduleNightlyBuild(branch) /\ SvcBound
    \/ \E cmd \in CustomCmds : RunCustomCmd(cmd) /\ SvcBound
    \/ RunLoop("ok")
    \/ \E c \in 1..MaxBuilds, exit_code \in ExitCodes : ContainerExited(c, exit_code)
    \/ RunTaskSvc
    \/ \E h \in suspended, outcome \in {"ok", "HTTPError"} : Resume(h, outcome)

SpecSvc == Init /\ [][NextSvc]_vars

\* ------------------------------------------- commits and the fixed hour loop
\* hours of a day, days of a month and days of a behaviour in the model
HoursPerDay == 2
DaysPerMonth == 2
MaxDate == 3

Hours == 0..(HoursPerDay - 1)

\* datetime.datetime.now().day
DayOfMonth(date) == ((date - 1) % DaysPerMonth) + 1

\* the clock n hours later
ClockAfter(c, n) ==
    IF c.hour + n < HoursPerDay THEN [c EXCEPT !.hour = @ + n]
    ELSE [date |-> c.date + 1, hour |-> c.hour + n - HoursPerDay]

\* a webhook delivers a commit
HandleCommit(commit_id, branch) ==
    /\ mode = "server"
    /\ IOLoopIdle
    /\ Commit(HandleCommitCall([Cur EXCEPT !.call = [op |-> "handle_commit", build |-> 0,
                                                     arg |-> <<commit_id, branch>>]],
                               commit_id, branch))
    /\ Len(builds') <= MaxBuilds
    /\ UNCHANGED mode

\* schedule_nightly_builds_for_new_commits that does not compare the commits
RECURSIVE ScheduleNightlyBuildsForNewCommits_NoCompare(_, _)
ScheduleNightlyBuildsForNewCommits_NoCompare(m, i) ==
    IF i > Len(NIGHTLY_BRANCHES) THEN m
    ELSE LET branch == NIGHTLY_BRANCHES[i]
             last_commit == m.last_commit[branch]
         IN ScheduleNightlyBuildsForNewCommits_NoCompare(
                IF last_commit # None
                THEN ScheduleNightly(m, last_commit, branch) ELSE m,
                i + 1)

\* RepoService.schedule_nightly_builds_for_new_commits, from branch i on
RECURSIVE ScheduleNightlyBuildsForNewCommits(_, _)
ScheduleNightlyBuildsForNewCommits(m, i) ==
    IF i > Len(NIGHTLY_BRANCHES) THEN m
    ELSE LET branch == NIGHTLY_BRANCHES[i]
             last_commit == m.last_commit[branch]
             last_nightly_commit == m.last_nightly_commit[branch]
         IN ScheduleNightlyBuildsForNewCommits(
                IF last_commit # None /\ last_commit # last_nightly_commit
                THEN ScheduleNightly(m, last_commit, branch) ELSE m,
                i + 1)

\* one pass of _fixed_hour_loop after gen.sleep(60): day is read from the
\* clock, then hour from a second reading of the clock, later hours later
FixedHourLoopPass(m, later) ==
    LET day == DayOfMonth(m.clock.date)
        now == ClockAfter(m.clock, later)
    IN IF day = m.last_run_day THEN m
       ELSE IF now.hour # m.nightly_fixed_hour THEN [m EXCEPT !.clock = now]
       ELSE ScheduleNightlyBuildsForNewCommits(
                [m EXCEPT !.clock = now, !.last_run_day = day,
                          !.fired = Append(@, now)], 1)

\* the loop is spawned only with a fixed hour set (init, lines 449-450)
FixedHourLoop(later) ==
    /\ mode = "server"
    /\ nightly_fixed_hour # NoHour
    /\ IOLoopIdle
    /\ Commit(FixedHourLoopPass(Cur, later))
    /\ clock'.date <= MaxDate
    /\ Len(builds') <= MaxBuilds
    /\ UNCHANGED mode

\* an hour passes
ClockTick ==
    /\ ClockAfter(clock, 1).date <= MaxDate
    /\ Commit([Cur EXCEPT !.clock = ClockAfter(clock, 1)])
    /\ UNCHANGED mode

InitNightly ==
    /\ InitVars
    /\ mode = "server"
    /\ nightly_fixed_hour \in {NoHour} \cup Hours

NextNightly ==
    \/ \E commit_id \in CommitIds, branch \in Branches : HandleCommit(commit_id, branch)
    \/ \E later \in {0, 1} : FixedHourLoop(later)
    \/ ClockTick

SpecNightly == InitNightly /\ [][NextNightly]_vars

\* -------------------------------------------------- handle_release called
\* tags of new tag events: one that matches RELEASE_TAG_REGEX, one that does not
ReleaseTags == {<<"2", "0", "2", "0", "0", "1", "3", "1">>, <<"v", "1">>}

\* the lines of .image_files of a board, or None when there is no such file
Listings ==
    {NoListing} \cup
    {[exists |-> TRUE, lines |-> l] :
        l \in {<< <<"thingos", ".img">> >>, << <<"thingos", ".img", ".xz">> >>,
               << <<"thingos", ".img", ".gz">>, <<"thingos", ".img", ".xz">> >>}}

HandleRelease(build_type, tag, listings, old_release) ==
    /\ mode = "server"
    /\ release.pc = "idle"
    /\ Commit(HandleReleaseCall([Cur EXCEPT !.release.listings = listings], build_type, tag,
                                [board \in RangeOf(BOARDS) |-> GatherImageFiles(listings[board])],
                                old_release))
    /\ UNCHANGED mode

ReleaseResume(outcome) ==
    /\ release.pc \in {"lookup", "delete", "create", "create_tag", "upload", "s3_upload"}
    /\ Commit(ReleaseResumeCall(Cur, outcome))
    /\ UNCHANGED mode

ReleaseCustomCmdReturned ==
    /\ release.pc = "remove_tag"
    /\ builds[release.custom_build].future # None
    /\ Commit(CustomCmdReturned(Cur))
    /\ UNCHANGED mode

InitRelease ==
    /\ InitBuilding
    /\ mode = "server"
    /\ nightly_fixed_hour = NoHour
    /\ release \in InitReleases

NextRelease ==
    \/ \E listings \in [RangeOf(BOARDS) -> Listings], old_release \in BOOLEAN :
           \/ HandleRelease(TYPE_NIGHTLY, NoTag, listings, old_release)
           \/ \E tag \in ReleaseTags : HandleRelease(TYPE_TAG, tag, listings, old_release)
    \/ \E outcome \in {"ok", "HTTPError"} : ReleaseResume(outcome)
    \/ ReleaseCustomCmdReturned
    \/ RunLoop("ok")
    \/ \E c \in 1..MaxBuilds, exit_code \in ExitCodes : ContainerExited(c, exit_code)
    \/ RunTask

SpecRelease == InitRelease /\ [][NextRelease]_vars

\* -------------------------------------------------- handle_new_tag called
\* values of settings.RELEASE_TAG_REGEX: \d{8}, (\d{4})\d{4}, (\d{4})(\d{4}),
\* v(\d) and the empty string
TagRegexes ==
    {RELEASE_TAG_REGEX,
     <<[chars |-> Digits, n |-> 4, group |-> TRUE], [chars |-> Digits, n |-> 4, group |-> FALSE]>>,
     <<[chars |-> Digits, n |-> 4, group |-> TRUE], [chars |-> Digits, n |-> 4, group |-> TRUE]>>,
     <<[chars |-> {"v"}, n |-> 1, group |-> FALSE], [chars |-> Digits, n |-> 1, group |-> TRUE]>>,
     <<>>}

\* a new tag event of the repository service
HandleNewTag(commit_id, tag) ==
    /\ mode = "server"
    /\ IOLoopIdle
    /\ Len(builds) + Len(BOARDS) <= MaxBuilds
    /\ Commit(HandleNewTagCall(Cur, commit_id, tag))
    /\ UNCHANGED mode

InitTag ==
    /\ InitBuilding
    /\ mode = "server"
    /\ nightly_fixed_hour = NoHour
    /\ release \in {[r EXCEPT !.tag_regex = regex] :
                        r \in {x \in InitReleases : ReleaseSettings(x) = DefaultReleaseSettings},
                        regex \in TagRegexes}

NextTag ==
    \/ \E commit_id \in CommitIds, tag \in ReleaseTags : HandleNewTag(commit_id, tag) /\ SvcBound
    \/ RunLoop("ok")
    \/ \E c \in 1..MaxBuilds, exit_code \in ExitCodes : ContainerExited(c, exit_code)
    \/ RunTask

SpecTag == InitTag /\ [][NextTag]_vars

\* ----------------------------------------------- the loops of dockerctl.py
\* the docker command that fails in one pass of _status_loop: none, the
\* listing, or one of the commands the pass runs on one container that is
\* not running
StatusLoopFailures ==
    {NoFailure, [cmd |-> "ls", container |-> 0]}
        \cup {[cmd |-> k, container |-> c] :
                  k \in {"wait", "logs", "write_log", "rm"},
                  c \in {x \in DOMAIN docker.cons :
                            ~docker.cons[x].removed /\ ~docker.cons[x].running}}

\* the docker command that fails in one pass of _cleanup_loop: none, the
\* listing, or the kill of one running container
CleanupLoopFailures ==
    {NoFailure, [cmd |-> "ls", container |-> 0]}
        \cup {[cmd |-> "kill", container |-> c] :
                  c \in {x \in DOMAIN docker.cons :
                            ~docker.cons[x].removed /\ docker.cons[x].running}}

\* containers of other programs docker runs
MaxForeign == 1

DockerScheduleBuild(build_key, callback, failed) ==
    /\ mode = "server"
    /\ docker.schedules < MaxDockerSchedules
    /\ Commit([Cur EXCEPT !.docker = DockerScheduleBuildCall(docker, build_key, callback, failed)])
    /\ UNCHANGED mode

\* another program starts a container (old, running or exited already)
DockerForeignContainer(name, running) ==
    /\ mode = "server"
    /\ Len(docker.cons) < MaxContainers
    /\ Cardinality({c \in DOMAIN docker.cons :
                       ~StartsWith(docker.cons[c].name, NamePrefix)}) < MaxForeign
    /\ Commit([Cur EXCEPT !.docker.cons =
                   Append(@, [build_key |-> None, name |-> name, running |-> running,
                              exit_code |-> IF running THEN NoExitCode ELSE 0,
                              age_exceeded |-> TRUE, removed |-> FALSE,
                              log_saved |-> FALSE, killed_by |-> None])])
    /\ UNCHANGED mode

DockerRunLoopPopStep ==
    /\ mode = "server"
    /\ docker.popped = NoInfo
    /\ docker.queue # <<>>
    /\ Commit([Cur EXCEPT !.docker = DockerRunLoopPop(docker)])
    /\ UNCHANGED mode

DockerRunLoopStartStep(docker_ok) ==
    /\ mode = "server"
    /\ docker.popped # NoInfo
    /\ docker.busy < DOCKER_MAX_PARALLEL
    /\ Len(docker.cons) < MaxContainers
    /\ Commit([Cur EXCEPT !.docker = DockerRunLoopStart(docker, docker_ok)])
    /\ UNCHANGED mode

DockerStatusLoop(failure) ==
    /\ mode = "server"
    /\ docker.status_loop_alive
    /\ Commit([Cur EXCEPT !.docker = DockerStatusLoopPass(docker, failure)])
    /\ UNCHANGED mode

DockerCleanupLoop(failure) ==
    /\ mode = "server"
    /\ docker.cleanup_loop_alive
    /\ Commit([Cur EXCEPT !.docker = DockerCleanupLoopPass(docker, failure)])
    /\ UNCHANGED mode

\* the build in container c finishes
DockerContainerExits(c, exit_code) ==
    /\ c \in DOMAIN docker.cons
    /\ docker.cons[c].running
    /\ Commit([Cur EXCEPT !.docker.cons[c].running = FALSE,
                          !.docker.cons[c].exit_code = exit_code])
    /\ UNCHANGED mode

\* container c becomes older than settings.DOCKER_CONTAINER_MAX_AGE
DockerContainerAges(c) ==
    /\ c \in DOMAIN docker.cons
    /\ docker.cons[c].running
    /\ ~docker.cons[c].age_exceeded
    /\ Commit([Cur EXCEPT !.docker.cons[c].age_exceeded = TRUE])
    /\ UNCHANGED mode

InitDockerCtl == InitVars /\ mode = "server" /\ nightly_fixed_hour = NoHour

NextDocker ==
    \/ \E build_key \in BuildKeys, callback \in BOOLEAN,
          failed \in {None, "kill", "logs", "write_log", "rm"} :
           DockerScheduleBuild(build_key, callback, failed)
    \/ \E name \in ForeignNames, running \in BOOLEAN : DockerForeignContainer(name, running)
    \/ DockerRunLoopPopStep
    \/ \E docker_ok \in BOOLEAN : DockerRunLoopStartStep(docker_ok)
    \/ \E failure \in StatusLoopFailures : DockerStatusLoop(failure)
    \/ \E failure \in CleanupLoopFailures : DockerCleanupLoop(failure)
    \/ \E c \in 1..MaxContainers, exit_code \in ExitCodes : DockerContainerExits(c, exit_code)
    \/ \E c \in 1..MaxContainers : DockerContainerAges(c)

SpecDocker == InitDockerCtl /\ [][NextDocker]_vars

\* the status and cleanup loops over the containers of builds scheduled
\* without a callback and started without error, and the containers of
\* other programs
NextDockerLoops ==
    \/ \E build_key \in BuildKeys : DockerScheduleBuild(build_key, FALSE, None)
    \/ \E name \in ForeignNames, running \in BOOLEAN : DockerForeignContainer(name, running)
    \/ DockerRunLoopPopStep
    \/ DockerRunLoopStartStep(TRUE)
    \/ \E failure \in StatusLoopFailures : DockerStatusLoop(failure)
    \/ \E failure \in CleanupLoopFailures : DockerCleanupLoop(failure)
    \/ \E c \in 1..MaxContainers, exit_code \in ExitCodes : DockerContainerExits(c, exit_code)
    \/ \E c \in 1..MaxContainers : DockerContainerAges(c)

SpecDockerLoops == InitDockerCtl /\ [][NextDockerLoops]_vars

\* ------------------------------------------------------- build.py called
\* the state of build.py at the start of a handler
CurPy == [build_py EXCEPT !.raised = None, !.call = NoCall]

\* schedule_pr_build(repo_service, board, pr_no)
BuildPySchedulePrBuild(board, pr_no) ==
    /\ Len(build_py.builds) < MaxBuildsPy
    /\ Commit([Cur EXCEPT !.build_py =
                   BuildPyScheduleBuild(CurPy, BuildPyInit("github", TYPE_PR, board, pr_no,
                                                           None, FALSE))])
    /\ UNCHANGED mode

\* run_custom_cmd(repo_service, custom_cmd) up to 'yield task'
BuildPyRunCustomCmd(custom_cmd) ==
    /\ Len(build_py.builds) < MaxBuildsPy
    /\ Commit([Cur EXCEPT !.build_py =
                   BuildPyScheduleBuild(CurPy, BuildPyInit("github", TYPE_CUSTOM, "custom",
                                                           None, custom_cmd, TRUE))])
    /\ UNCHANGED mode

\* build.add_state_change_callback(callback), by the service that scheduled
\* the build
BuildPyAddStateChangeCallback(b) ==
    /\ b \in 1..Len(build_py.builds)
    /\ build_py.builds[b].state_change_callbacks = <<>>
    /\ BuildPyGetState(build_py.builds[b]) = STATE_PENDING
    /\ Commit([Cur EXCEPT !.build_py =
                   [CurPy EXCEPT !.builds[b].state_change_callbacks =
                                     Append(@, "RepoService._on_build_state_change")]])
    /\ UNCHANGED mode

BuildPyRunLoop(launch) ==
    /\ build_py.queue # <<>>
    /\ Cardinality(DOMAIN build_py.current) < DOCKER_MAX_PARALLEL
    /\ Commit([Cur EXCEPT !.build_py = BuildPyRunLoopPass(CurPy, launch)])
    /\ UNCHANGED mode

\* the container of build b exits with exit_code and calls its observer
BuildPyContainerExited(b, exit_code) ==
    /\ b \in 1..Len(build_py.builds)
    /\ build_py.builds[b].container # NoContainer
    /\ build_py.builds[b].container \notin build_py.exited
    /\ Commit([Cur EXCEPT !.build_py =
                   BuildPyOnContainerStateChange(
                       [CurPy EXCEPT !.exited = @ \cup {build_py.builds[b].container},
                                     !.call = [op |-> "_on_container_state_change",
                                               build |-> b, arg |-> exit_code]],
                       b, "exited", exit_code)])
    /\ UNCHANGED mode

\* build.set_end(exit_code) on any build, whatever its state
BuildPyCallSetEnd(b, exit_code) ==
    /\ b \in 1..Len(build_py.builds)
    /\ Commit([Cur EXCEPT !.build_py =
                   BuildPySetEnd([CurPy EXCEPT !.call = [op |-> "set_end", build |-> b,
                                                         arg |-> exit_code]],
                                 b, exit_code)])
    /\ UNCHANGED mode

\* the IOLoop runs the callback at the head of its queue: an observer of
\* the service, or the callback that resumes run_custom_cmd
BuildPyRunTask ==
    /\ build_py.tasks # <<>>
    /\ Commit([Cur EXCEPT !.build_py = [CurPy EXCEPT !.tasks = Tail(@)]])
    /\ UNCHANGED mode

NextBuildPy ==
    \/ \E board \in RangeOf(BOARDS), pr_no \in PrNos : BuildPySchedulePrBuild(board, pr_no)
    \/ \E cmd \in CustomCmds : BuildPyRunCustomCmd(cmd)
    \/ \E b \in 1..MaxBuildsPy : BuildPyAddStateChangeCallback(b)
    \/ \E launch \in {"ok", "DockerException"} : BuildPyRunLoop(launch)
    \/ \E b \in 1..MaxBuildsPy, exit_code \in ExitCodes : BuildPyContainerExited(b, exit_code)
    \/ \E b \in 1..MaxBuildsPy, exit_code \in ExitCodes : BuildPyCallSetEnd(b, exit_code)
    \/ BuildPyRunTask

\* build.py runs in the server
InitBuildPyServer == Init /\ mode = "server"

SpecBuildPy == InitBuildPyServer /\ [][NextBuildPy]_vars

\* ------------------------------------------ the loop device manager called
\* The paths release_loop_dev is called with: the paths of the slots of the
\* range and of the numbers next to it, and paths whose tail is not a number.
ReleasePaths ==
    {LoopDevPath(l) : l \in (LoopDevLo - 1)..(LoopDevLo + LoopDevCount)}
        \cup {<<"/dev/loop", <<>>>>, <<"/dev/loop", <<"1", "x">>>>, <<"/dev/sdaX", <<"1", "0">>>>}

\* loopdevmanager.acquire_loop_dev() called; call.arg is what it returned
CallAcquireLoopDev ==
    LET acq == AcquireLoopDev(loop_devs)
    IN /\ Commit([Cur EXCEPT !.loop_devs = acq.devs,
                             !.raised = acq.raised,
                             !.call = [op |-> "acquire_loop_dev", build |-> 0,
                                       arg |-> acq.result]])
       /\ UNCHANGED mode

\* loopdevmanager.release_loop_dev(loop_dev) called
CallReleaseLoopDev(loop_dev) ==
    LET rel == ReleaseLoopDev(loop_devs, loop_dev)
    IN /\ Commit([Cur EXCEPT !.loop_devs = rel.devs,
                             !.raised = rel.raised,
                             !.call = [op |-> "release_loop_dev", build |-> 0,
                                       arg |-> loop_dev]])
       /\ UNCHANGED mode

NextLoopDev ==
    \/ CallAcquireLoopDev
    \/ \E loop_dev \in ReleasePaths : CallReleaseLoopDev(loop_dev)
    \/ \E cmd \in CustomCmds : RunCustomCmd(cmd) /\ Len(builds') <= MaxBuildsApi

SpecLoopDev == Init /\ [][NextLoopDev]_vars

\* ------------------------------------------- the Build methods called directly
\* build.set_begin(container) on any build, whatever its state
CallSetBegin(b, container) ==
    /\ IOLoopIdle
    /\ b \in 1..Len(builds)
    /\ Commit(SetBegin([Cur EXCEPT !.call = [op |-> "set_begin", build |-> b,
                                              arg |-> container]], b, container))
    /\ UNCHANGED mode

\* build.set_end(exit_code) on any build, whatever its state
CallSetEnd(b, exit_code) ==
    /\ IOLoopIdle
    /\ b \in 1..Len(builds)
    /\ Commit(SetEnd([Cur EXCEPT !.call = [op |-> "set_end", build |-> b,
                                            arg |-> exit_code]], b, exit_code))
    /\ UNCHANGED mode

ApiBound == Len(builds') <= MaxBuildsApi

NextApi ==
    \/ RunLoop("ok")
    \/ \E pr_no \in PrNos : HandlePullRequest(pr_no) /\ ApiBound
    \/ \E cmd \in CustomCmds : RunCustomCmd(cmd) /\ ApiBound
    \/ \E b \in 1..MaxBuilds, c \in {0, 1} :
           CallSetBegin(b, IF c = 0 THEN NoContainer ELSE b)
    \/ \E b \in 1..MaxBuilds, exit_code \in ExitCodes : CallSetEnd(b, exit_code)
    \/ RunTask

SpecApi == Init /\ [][NextApi]_vars

\* ----------------------------------------------- the scheduler under fairness
\* Every launch succeeds, every launched container eventually exits, the
\* scheduling loop keeps ticking and the IOLoop keeps running callbacks.
LiveBound == Len(builds') <= MaxBuildsLive

NextLive ==
    \/ \E pr_no \in PrNos : HandlePullRequest(pr_no) /\ LiveBound
    \/ \E branch \in NightlyBranches : ScheduleNightlyBuild(branch) /\ LiveBound
    \/ \E cmd \in CustomCmds : RunCustomCmd(cmd) /\ LiveBound
    \/ RunLoop("ok")
    \/ \E c \in 1..MaxBuilds, exit_code \in ExitCodes : ContainerExited(c, exit_code)
    \/ RunTask

SpecLive ==
    /\ Init /\ [][NextLive]_vars
    /\ WF_vars(RunLoop("ok"))
    /\ WF_vars(RunTask)
    /\ WF_vars(\E c \in 1..MaxBuilds, exit_code \in ExitCodes : ContainerExited(c, exit_code))

\* Pull request events only, as many as MaxBuilds allows, under the same
\* fairness: a pull request can be updated while builds of its group are
\* queued.
NextLiveGroups ==
    \/ \E pr_no \in PrNos : HandlePullRequest(pr_no)
    \/ RunLoop("ok")
    \/ \E c \in 1..MaxBuilds, exit_code \in ExitCodes : ContainerExited(c, exit_code)
    \/ RunTask

SpecLiveGroups ==
    /\ Init /\ [][NextLiveGroups]_vars
    /\ WF_vars(RunLoop("ok"))
    /\ WF_vars(RunTask)
    /\ WF_vars(\E c \in 1..MaxBuilds, exit_code \in ExitCodes : ContainerExited(c, exit_code))

\* ------------------------------------------- custom commands on one board
\* number of Build objects constructed in a behaviour of SpecFifo
MaxBuildsFifo == 5
\* command texts of run_custom_cmd: their builds have different keys and the
\* same board, the default 'dummyboard'
FifoCustomCmds == {"git push --delete origin nightly-dev", "git push --delete origin 20200131"}

\* handle_pull_request_update, with room for the builds of one more group
HandlePullRequestFifo(pr_no) ==
    /\ mode = "server"
    /\ IOLoopIdle
    /\ Len(builds) + Len(BOARDS) <= MaxBuildsFifo
    /\ Commit(ScheduleGroup(Cur, [BuildArgs("github", NoGroup, TYPE_PR, None)
                                      EXCEPT !.pr_no = pr_no]))
    /\ UNCHANGED mode

\* a repository service adapter runs one of the custom commands
RunCustomCmdFifo(custom_cmd) ==
    /\ mode = "server"
    /\ IOLoopIdle
    /\ Len(builds) + 1 <= MaxBuildsFifo
    /\ Commit(RunCustomCmdCall(Cur, "github", custom_cmd, FALSE, DummyBoard))
    /\ UNCHANGED mode

InitFifo == Init /\ mode = "server"

NextFifo ==
    \/ \E pr_no \in PrNos : HandlePullRequestFifo(pr_no)
    \/ \E cmd \in FifoCustomCmds : RunCustomCmdFifo(cmd)
    \/ RunLoop("ok")
    \/ \E c \in 1..MaxBuildsFifo : ContainerExited(c, 0)
    \/ RunTask

SpecFifo == InitFifo /\ [][NextFifo]_vars

\* ------------------------------------------------------------------ claims
BuildIds == 1..Len(builds)
GroupIds == 1..Len(groups)
StateOf(b) == GetState(builds[b])
RunningSet == {current_builds_by_board[x] : x \in DOMAIN current_builds_by_board}
Members(g) == {groups[g].builds[x] : x \in DOMAIN groups[g].builds}

\* C1: the running set never holds more builds than DOCKER_MAX_PARALLEL.
C1_RunningWithinMaxParallel ==
    Cardinality(DOMAIN current_builds_by_board) <= DOCKER_MAX_PARALLEL

\* the running set is full while a build for a free board waits in the queue
C1_Witness ==
    /\ Cardinality(DOMAIN current_builds_by_board) = DOCKER_MAX_PARALLEL
    /\ \E b \in QueuedBuilds : builds[b].board \notin DOMAIN current_builds_by_board

\* no two builds of a board are Running, and a Running build is the entry of
\* its board in the running set
OneRunningPerBoard ==
    /\ \A b1, b2 \in BuildIds :
           (/\ StateOf(b1) = STATE_RUNNING
            /\ StateOf(b2) = STATE_RUNNING
            /\ builds[b1].board = builds[b2].board) => b1 = b2
    /\ \A b \in BuildIds :
           StateOf(b) = STATE_RUNNING =>
               /\ builds[b].board \in DOMAIN current_builds_by_board
               /\ current_builds_by_board[builds[b].board] = b

\* a build begins in a step only if its board had no entry in the running set
BeginsOnFreeBoard ==
    \A b \in BuildIds :
        (builds[b].begin_time = None /\ builds'[b].begin_time # None) =>
            builds[b].board \notin DOMAIN current_builds_by_board

\* C2: at any time at most one build per board is Running, and set_begin is
\* never called on a build whose board already has an entry in the running
\* set: a second build of a board begins only after the first has Ended.
C2_OneRunningPerBoard ==
    []OneRunningPerBoard /\ [][BeginsOnFreeBoard]_vars

\* a second build of a board is Running after the first one has Ended
C2_Witness ==
    \E b1, b2 \in BuildIds :
        /\ b1 # b2
        /\ builds[b1].board = builds[b2].board
        /\ StateOf(b1) = STATE_ENDED
        /\ StateOf(b2) = STATE_RUNNING

\* the queue holds at most one build per key, and no queued build is older
\* than another build of its key
OneQueuedPerKey ==
    /\ \A i, j \in 1..Len(build_queue) :
           GetKey(builds[build_queue[i]]) = GetKey(builds[build_queue[j]]) => i = j
    /\ \A x \in QueuedBuilds : \A y \in BuildIds :
           GetKey(builds[y]) = GetKey(builds[x]) => y <= x

\* the builds a schedule call constructs are queued when it returns
ScheduledIsQueued ==
    \A y \in (Len(builds) + 1)..Len(builds') : y \in RangeOf(build_queue')

\* C3: the queue holds at most one build per key at any time, push-backs
\* included; scheduling Y while a build X of the same key is queued leaves Y
\* queued and X absent from the queue.
C3_OneQueuedPerKey ==
    []OneQueuedPerKey /\ [][ScheduledIsQueued]_vars

\* Y is queued and an older build X of the same key, never admitted, is not
C3_Witness ==
    \E x, y \in BuildIds :
        /\ x < y
        /\ GetKey(builds[x]) = GetKey(builds[y])
        /\ y \in QueuedBuilds
        /\ x \notin QueuedBuilds
        /\ x \notin RunningSet
        /\ StateOf(x) = STATE_PENDING

\* C4: all the builds of the running set that have a group have the same.
C4_OneGroupRunning ==
    \A b1, b2 \in RunningSet :
        (builds[b1].group # NoGroup /\ builds[b2].group # NoGroup) =>
            builds[b1].group = builds[b2].group

\* a build of group G runs while a build of another group waits for a free
\* board with a free slot: only the group rule keeps it out
C4_Witness ==
    /\ Cardinality(DOMAIN current_builds_by_board) < DOCKER_MAX_PARALLEL
    /\ \E r \in RunningSet : \E q \in QueuedBuilds :
           /\ StateOf(r) = STATE_RUNNING
           /\ builds[r].group # NoGroup
           /\ builds[q].group # NoGroup
           /\ builds[q].group # builds[r].group
           /\ builds[q].board \notin DOMAIN current_builds_by_board

\* C5: a build whose container launch was refused is neither queued nor in
\* the running set.
C5_LaunchFailureDropsBuild ==
    \A b \in BuildIds :
        launched[b] = "DockerException" =>
            b \notin QueuedBuilds /\ b \notin RunningSet

\* the observer calls a build in the state of bd has spawned so far
ExpectedDispatch(b) ==
    LET cbs == builds[b].state_change_callbacks
        on(state) == [i \in 1..Len(cbs) |-> [kind |-> cbs[i], build |-> b, state |-> state]]
    IN (IF builds[b].begin_time # None THEN on(STATE_RUNNING) ELSE <<>>)
       \o (IF builds[b].end_time # None THEN on(STATE_ENDED) ELSE <<>>)

\* C6: a step never undoes a begin or an end, a build that has ended has
\* begun, and after every step the observer calls spawned for a build are
\* exactly one per registered observer with "running" if it has begun,
\* followed by one per observer with "ended" if it has ended.
C6_MonotonicStateObserversOnce ==
    [][\A b \in BuildIds :
          /\ builds[b].begin_time # None => builds'[b].begin_time # None
          /\ builds[b].end_time # None => builds'[b].end_time # None
          /\ builds'[b].end_time # None => builds'[b].begin_time # None
          /\ builds'[b].state_change_callbacks = builds[b].state_change_callbacks
          /\ dispatched'[b] = ExpectedDispatch(b)']_vars

\* a build with two observers has ended: four observer calls were spawned
C6_Witness ==
    \E b \in BuildIds :
        /\ StateOf(b) = STATE_ENDED
        /\ Len(builds[b].state_change_callbacks) = 2
        /\ Len(dispatched[b]) = 4

\* the last step called a Build method in a state in which it must fail
InvalidCall ==
    /\ call'.op # None
    /\ \/ call'.op = "set_begin" /\ builds[call'.build].begin_time # None
       \/ call'.op = "set_end" /\ builds[call'.build].begin_time = None
       \/ call'.op = "set_end" /\ builds[call'.build].end_time # None

\* C7: set_begin on a build that has begun, set_end on a build that has not
\* begun and set_end on a build that has ended raise BuildException and
\* leave the builds, the loop device table, the running set and the queue of
\* spawned callbacks as they were.
C7_InvalidTransitionFails ==
    [][InvalidCall =>
          /\ raised' = "BuildException"
          /\ UNCHANGED <<builds, loop_devs, current_builds_by_board, containers,
                         tasks, dispatched, handled>>]_vars

\* set_end was called on a build that had ended, and raised
C7_Witness ==
    /\ call.op = "set_end"
    /\ raised = "BuildException"
    /\ builds[call.build].end_time # None

\* C8: firstBegin and lastEnd are handled at most once per group, firstBegin
\* only when a member has begun, lastEnd only when no member is Pending or
\* Running; and once the IOLoop has run its callbacks, firstBegin has been
\* handled if a member has begun and lastEnd if every member has ended.
C8_FirstBeginLastEndOnce ==
    \A g \in GroupIds :
        /\ handled[g].first_begin <= 1
        /\ handled[g].last_end <= 1
        /\ handled[g].first_begin = 1 => \E b \in Members(g) : StateOf(b) # STATE_PENDING
        /\ handled[g].last_end = 1 => \A b \in Members(g) : StateOf(b) = STATE_ENDED
        /\ (tasks = <<>> /\ \E b \in Members(g) : StateOf(b) # STATE_PENDING)
               => handled[g].first_begin = 1
        /\ (tasks = <<>> /\ \A b \in Members(g) : StateOf(b) = STATE_ENDED)
               => handled[g].last_end = 1

\* both members of a group have ended and lastEnd was handled
C8_Witness ==
    \E g \in GroupIds :
        /\ Cardinality(Members(g)) = 2
        /\ \A b \in Members(g) : StateOf(b) = STATE_ENDED
        /\ handled[g].first_begin = 1
        /\ handled[g].last_end = 1

\* b is not queued because it was admitted or replaced
AdmittedOrReplaced(b) ==
    \/ builds[b].begin_time # None
    \/ \E y \in BuildIds : y > b /\ GetKey(builds[y]) = GetKey(builds[b])

\* C9: when launches succeed and containers exit, a non-empty queue
\* eventually drains, and a build leaves the queue only by being admitted or
\* by being replaced by a newer build of its key: every queued build is
\* eventually admitted or replaced.
C9_QueueDrains ==
    /\ [](\A b \in BuildIds : b \notin QueuedBuilds => AdmittedOrReplaced(b))
    /\ (build_queue # <<>>) ~> (build_queue = <<>>)

\* the queue has drained: a build was replaced in it, never to begin, and
\* the build of its key that replaced it has ended
C9_Witness ==
    /\ build_queue = <<>>
    /\ \E x, y \in BuildIds :
           /\ x < y
           /\ GetKey(builds[x]) = GetKey(builds[y])
           /\ StateOf(x) = STATE_PENDING
           /\ StateOf(y) = STATE_ENDED

FinalStatuses(g) ==
    SelectSeq(handled[g].statuses, LAMBDA st : st.status \in {"success", "failed"})

FailingBoards(g) ==
    {builds[b].board : b \in {x \in Members(g) : builds[x].exit_code \notin {0, NoExitCode}}}

ReleasedGroups == {released[i] : i \in DOMAIN released}

\* C11: handle_release is called for a group at most once, only after its
\* lastEnd was handled, only when every member ended with exit code 0, and
\* only for a nightly or tag group (never for a pull request group).
C11_ReleaseOnlyAfterSuccess ==
    /\ \A i, j \in DOMAIN released : released[i] = released[j] => i = j
    /\ \A g \in ReleasedGroups :
           /\ handled[g].last_end = 1
           /\ \A b \in Members(g) :
                  /\ StateOf(b) = STATE_ENDED
                  /\ builds[b].exit_code = 0
                  /\ builds[b].type \in {TYPE_NIGHTLY, TYPE_TAG}

\* handle_release was called for a nightly group of two builds
C11_Witness ==
    \E g \in ReleasedGroups :
        /\ Cardinality(Members(g)) = 2
        /\ \A b \in Members(g) : builds[b].type = TYPE_NIGHTLY

\* the positions in started of the handler kind for build b
StartsOf(kind, b) ==
    {i \in DOMAIN started : started[i].kind = kind /\ started[i].build = b}

FirstBeginStarts(g) ==
    UNION {StartsOf("handle_first_build_begin", b) : b \in Members(g)}

BuildEndStarts(g) ==
    UNION {StartsOf("RepoService._on_build_state_change", b) : b \in Members(g)}

LastEndStarts(g) ==
    UNION {StartsOf("handle_last_build_end", b) : b \in Members(g)}

\* C12: in every group the firstBegin handler starts before the buildEnded
\* handler of any member, and the buildEnded handlers of all the members
\* start before the lastEnd handler.
C12_HandlerOrder ==
    \A g \in GroupIds :
        /\ \A i \in BuildEndStarts(g) : \E j \in FirstBeginStarts(g) : j < i
        /\ \A i \in BuildEndStarts(g) : \A j \in FirstBeginStarts(g) : j < i
        /\ \A j \in LastEndStarts(g) :
               /\ \A i \in BuildEndStarts(g) : i < j
               /\ \A b \in Members(g) :
                      \E i \in StartsOf("RepoService._on_build_state_change", b) : i < j

\* the four handlers of a group of two builds have all started
C12_Witness ==
    \E g \in GroupIds :
        /\ Cardinality(BuildEndStarts(g)) = 2
        /\ FirstBeginStarts(g) # {}
        /\ LastEndStarts(g) # {}

BusySlots == {l \in DOMAIN loop_devs : loop_devs[l]}

\* slot l is free and every slot below it is busy
LowestFree(l) ==
    /\ l \in LoopDevSlots
    /\ ~loop_devs[l]
    /\ \A k \in LoopDevSlots : k < l => loop_devs[k]

\* loop_dev is what an acquire made in this step must return
AcquiredInStep(loop_dev) ==
    IF \A l \in LoopDevSlots : loop_devs[l]
    THEN loop_dev = NoLoopDev /\ loop_devs' = loop_devs
    ELSE \E l \in LoopDevSlots :
             /\ LowestFree(l)
             /\ loop_dev = <<"/dev/loop", IntToText(l)>>
             /\ loop_devs' = [loop_devs EXCEPT ![l] = TRUE]

\* C14: acquire returns the path of the lowest free slot, marks that slot
\* busy and leaves the others as they were; with every slot busy it raises
\* LoopDevManagerException and changes nothing; the table always has the
\* slots of the range, so no more than LoopDevCount are busy.
C14_AcquireLowestFree ==
    /\ [](DOMAIN loop_devs = LoopDevSlots /\ Cardinality(BusySlots) <= LoopDevCount)
    /\ [][/\ call'.op = "acquire_loop_dev" =>
                /\ AcquiredInStep(call'.arg)
                /\ raised' = IF call'.arg = NoLoopDev
                              THEN "LoopDevManagerException" ELSE None
          /\ \A b \in (Len(builds) + 1)..Len(builds') :
                AcquiredInStep(builds'[b].loop_dev)]_vars

\* acquire was called with every slot busy, and raised
C14_Witness ==
    /\ call.op = "acquire_loop_dev"
    /\ raised = "LoopDevManagerException"
    /\ BusySlots = LoopDevSlots

\* the tail of the path is the number of a slot of the table that is busy
NamesBusySlot(loop_dev, l) ==
    /\ TextToInt(loop_dev[2]).raised = None
    /\ TextToInt(loop_dev[2]).value = l
    /\ l \in DOMAIN loop_devs
    /\ loop_devs[l]

\* C15: release of the path of a busy slot of the table frees that slot and
\* no other; release of a free slot, of a number outside the table or of a
\* path whose tail is not a number raises LoopDevManagerException and leaves
\* the table as it was.
C15_ReleaseChecked ==
    [][call'.op = "release_loop_dev" =>
          IF \E l \in LoopDevSlots : NamesBusySlot(call'.arg, l)
          THEN /\ raised' = None
               /\ \E l \in LoopDevSlots :
                      /\ NamesBusySlot(call'.arg, l)
                      /\ loop_devs' = [loop_devs EXCEPT ![l] = FALSE]
          ELSE /\ raised' = "LoopDevManagerException"
               /\ loop_devs' = loop_devs]_vars

\* a slot was released twice: the second call raised
C15_Witness ==
    /\ call.op = "release_loop_dev"
    /\ raised = "LoopDevManagerException"
    /\ TextToInt(call.arg[2]).raised = None
    /\ TextToInt(call.arg[2]).value \in LoopDevSlots
    /\ ~loop_devs[TextToInt(call.arg[2]).value]

HoldsLoopDev(b) == builds[b].loop_dev # NoLoopDev

\* the slot of the loop device of build b
SlotOf(b) == TextToInt(builds[b].loop_dev[2]).value

\* build b moves to Ended in this step
EndsInStep(b) == builds[b].end_time = None /\ builds'[b].end_time # None

C17_NoLoopDevProceeds ==
    [][/\ \A b \in (Len(builds) + 1)..Len(builds') :
             /\ b \in RangeOf(build_queue')
             /\ BusySlots = LoopDevSlots => builds'[b].loop_dev = NoLoopDev
       /\ \A b \in BuildIds :
             (~HoldsLoopDev(b) /\ EndsInStep(b)) => loop_devs' = loop_devs]_vars

\* a build constructed without a loop device was admitted and has ended,
\* and every slot is still busy
C17_Witness ==
    /\ BusySlots = LoopDevSlots
    /\ \E b \in BuildIds :
           /\ ~HoldsLoopDev(b)
           /\ launched[b] = "ok"
           /\ StateOf(b) = STATE_ENDED

\* the nightly branches
NightlySet == {NIGHTLY_BRANCHES[i] : i \in DOMAIN NIGHTLY_BRANCHES}

\* the builds and the groups made in this step
NewBuilds == (Len(builds) + 1)..Len(builds')
NewGroups == (Len(groups) + 1)..Len(groups')

\* group g, made in this step, is a nightly group of branch at commit_id:
\* one queued nightly build per board
NightlyGroupScheduled(g, commit_id, branch) ==
    LET members == {groups'[g].builds[x] : x \in DOMAIN groups'[g].builds}
    IN /\ members \subseteq NewBuilds
       /\ {builds'[b].board : b \in members} = RangeOf(BOARDS)
       /\ Cardinality(members) = Len(BOARDS)
       /\ \A b \in members :
              /\ builds'[b].type = TYPE_NIGHTLY
              /\ builds'[b].branch = branch
              /\ builds'[b].commit_id = commit_id
              /\ builds'[b].group = g
              /\ b \in RangeOf(build_queue')

\* nothing is scheduled in this step
NothingScheduled ==
    /\ builds' = builds
    /\ groups' = groups
    /\ build_queue' = build_queue

\* what a commit event of commit_id on branch does
CommitHandled(commit_id, branch) ==
    /\ last_commit_by_branch' = [last_commit_by_branch EXCEPT ![branch] = commit_id]
    /\ IF branch \in NightlySet /\ nightly_fixed_hour = NoHour
       THEN /\ Len(groups') = Len(groups) + 1
            /\ Len(builds') = Len(builds) + Len(BOARDS)
            /\ NightlyGroupScheduled(Len(groups'), commit_id, branch)
            /\ last_nightly_commit_by_branch' =
                   [last_nightly_commit_by_branch EXCEPT ![branch] = commit_id]
       ELSE /\ NothingScheduled
            /\ last_nightly_commit_by_branch' = last_nightly_commit_by_branch

\* C18: a commit event records the commit as the last commit of its branch;
\* it schedules a nightly group at once exactly when the branch is a nightly
\* branch and no fixed hour is set; with a fixed hour set it schedules
\* nothing and leaves the last nightly commits as they were.
C18_CommitEvent ==
    [][call'.op = "handle_commit" => CommitHandled(call'.arg[1], call'.arg[2])]_vars

\* with a fixed hour set, a commit to a nightly branch was recorded and
\* nothing was scheduled
C18_Witness ==
    /\ nightly_fixed_hour # NoHour
    /\ call.op = "handle_commit"
    /\ call.arg[2] \in NightlySet
    /\ last_commit_by_branch[call.arg[2]] = call.arg[1]
    /\ last_nightly_commit_by_branch[call.arg[2]] = None
    /\ builds = <<>>

\* C19: the fixed hour task runs at most once on a calendar day, and only
\* at the fixed hour.
C19_OncePerDay ==
    /\ \A i, j \in DOMAIN fired : fired[i].date = fired[j].date => i = j
    /\ \A i \in DOMAIN fired : fired[i].hour = nightly_fixed_hour

\* the nightly branches whose last commit differs from the last nightly one
BranchesWithNewCommits ==
    {branch \in NightlySet :
         last_commit_by_branch[branch] # last_nightly_commit_by_branch[branch]}

\* what a run of the fixed hour task does
FixedHourTaskRun ==
    /\ last_commit_by_branch' = last_commit_by_branch
    /\ Len(groups') = Len(groups) + Cardinality(BranchesWithNewCommits)
    /\ Len(builds') = Len(builds) + Len(BOARDS) * Cardinality(BranchesWithNewCommits)
    /\ \A branch \in Branches :
           IF branch \in BranchesWithNewCommits
           THEN /\ \E g \in NewGroups :
                       NightlyGroupScheduled(g, last_commit_by_branch[branch], branch)
                /\ last_nightly_commit_by_branch'[branch] = last_commit_by_branch[branch]
           ELSE /\ last_nightly_commit_by_branch'[branch] =
                       last_nightly_commit_by_branch[branch]
                /\ \A b \in NewBuilds : builds'[b].branch # branch
    /\ \A branch \in NightlySet :
           last_commit_by_branch'[branch] = last_nightly_commit_by_branch'[branch]

\* C20: a run of the fixed hour task schedules a nightly group for exactly
\* the nightly branches whose last commit differs from the last nightly
\* commit, at that last commit, and the two are equal afterwards; only a
\* commit event or a run changes them, so a second run with no commit event
\* in between schedules nothing.
C20_FixedHourSchedulesNewCommits ==
    [][/\ fired' # fired => FixedHourTaskRun
       /\ (fired' = fired /\ call'.op # "handle_commit") =>
              /\ last_commit_by_branch' = last_commit_by_branch
              /\ last_nightly_commit_by_branch' = last_nightly_commit_by_branch]_vars

\* the task ran twice and one group was scheduled, for the one nightly
\* branch that had a commit
C20_Witness ==
    /\ Len(fired) = 2
    /\ Len(groups) = 1
    /\ last_commit_by_branch["dev"] = "c1"
    /\ last_nightly_commit_by_branch["dev"] = "c1"
    /\ last_commit_by_branch["master"] = None
    /\ \A b \in BuildIds : builds[b].branch = "dev" /\ builds[b].commit_id = "c1"

\* the containers started so far, and the end handlers spawned for one
ContainerIds == DOMAIN docker.cons
EndsSpawned(c) ==
    {r \in BagToSet(docker.spawned) : r.handler = "end" /\ r.container_id = c}

\* the end of the build of container c, with the exit code of c
EndOf(c) ==
    [handler |-> "end", build_key |-> docker.cons[c].build_key, container_id |-> c,
     exit_code |-> docker.cons[c].exit_code]

\* C21: a container killed by the cleanup loop and then seen as not running
\* and removed by the status loop has had the end of its build delivered
\* with its exit code, exactly once; no container has the end of its build
\* delivered twice.
C21_KilledContainerEndsOnce ==
    \A c \in ContainerIds :
        /\ (docker.cons[c].killed_by = "cleanup_loop" /\ docker.cons[c].removed) =>
               /\ EndsSpawned(c) = {EndOf(c)}
               /\ CopiesIn(EndOf(c), docker.spawned) = 1
        /\ \A r \in EndsSpawned(c) : CopiesIn(r, docker.spawned) = 1

\* C22: a container stops running because its build finished or because the
\* cleanup loop killed it after its age exceeded the maximum, never because
\* of a call of schedule_build; a container is removed only when it is not
\* running.
C22_KilledOnlyOnAge ==
    \A c \in ContainerIds :
        /\ docker.cons[c].killed_by \in {None, "cleanup_loop"}
        /\ docker.cons[c].killed_by = "cleanup_loop" => docker.cons[c].age_exceeded
        /\ docker.cons[c].removed => ~docker.cons[c].running

\* the requests handle_release has made, by kind
RequestsOf(kind) == {i \in DOMAIN release.requests : release.requests[i].kind = kind}

\* C23: when a release of the same tag exists, the request that creates the
\* fresh release is made only after the old release is removed and the old
\* git tag is deleted: neither exists when it is made.
C23_OldReleaseAndTagGoneFirst ==
    release.found =>
        \A i \in RequestsOf("create_release") :
            /\ ~release.requests[i].old_release
            /\ ~release.requests[i].old_tag

\* no release (on Bitbucket, no tag) has been created
ReleaseCreationFailed ==
    /\ release.pc \in {"upload", "s3_upload", "raised", "done"}
    /\ RequestsOf("create_release") = {}
    /\ RequestsOf("create_tag") = {}

Produced(board, fmt) ==
    /\ release.listings[board].exists
    /\ \E x \in DOMAIN release.listings[board].lines :
           LET f == release.listings[board].lines[x] IN f[Len(f)] = fmt

\* the (board, format) pairs to upload to the repository service
ExpectedUploads ==
    IF release.build_type \in release.upload_service_build_types
    THEN {<<BOARDS[i], IMAGE_FILE_FORMATS[j]>> :
              i \in DOMAIN BOARDS, j \in DOMAIN IMAGE_FILE_FORMATS} \cap
         {pair \in RangeOf(BOARDS) \X RangeOf(IMAGE_FILE_FORMATS) : Produced(pair[1], pair[2])}
    ELSE {}

UploadedPair(i) == <<release.requests[i].board, release.requests[i].fmt>>

C26_DraftForTagBuilds ==
    \A i \in RequestsOf("create_release") :
        release.requests[i].draft = (release.build_type = TYPE_TAG)

\* the callbacks a step has queued on the IOLoop (a step of RunTask takes
\* the head of the queue first)
SpawnedInStep ==
    IF Len(tasks) <= Len(tasks') /\ SubSeq(tasks', 1, Len(tasks)) = tasks
    THEN SubSeq(tasks', Len(tasks) + 1, Len(tasks'))
    ELSE SubSeq(tasks', Len(tasks), Len(tasks'))

IsObserverTask(t) ==
    t.kind \in {"BuildGroup._on_build_state_change", "RepoService._on_build_state_change"}

IsGroupEventTask(t) ==
    t.kind \in {"handle_first_build_begin", "handle_last_build_end"}

\* one call of each observer registered on build b, in registration order
ObserverCalls(b, state) ==
    [i \in 1..Len(builds[b].state_change_callbacks) |->
        [kind |-> builds[b].state_change_callbacks[i], build |-> b, state |-> state]]

\* the observer calls set_begin / set_end of build b owe for the change of
\* state made in a step
ObserverCallsOwed(b) ==
    IF StateOf(b) = STATE_PENDING /\ StateOf(b)' = STATE_RUNNING
    THEN ObserverCalls(b, STATE_RUNNING)
    ELSE IF StateOf(b) = STATE_RUNNING /\ StateOf(b)' = STATE_ENDED
    THEN ObserverCalls(b, STATE_ENDED)
    ELSE ObserverCalls(b, STATE_RUNNING) \o ObserverCalls(b, STATE_ENDED)

\* C27: a step in which set_begin / set_end changes the state of a build
\* queues one task per observer of the build, in registration order, and runs
\* none of them: no group latch and no handler count changes in that step.  A
\* step in which a group's first-begin or last-end latch is set queues the
\* event handler as one task and does not run it.
C27_ObserversDispatchedAsTasks ==
    [][/\ \A b \in BuildIds :
            StateOf(b)' # StateOf(b) =>
                /\ SelectSeq(SpawnedInStep, IsObserverTask) = ObserverCallsOwed(b)
                /\ SelectSeq(SpawnedInStep, IsGroupEventTask) = <<>>
                /\ groups' = groups
                /\ handled' = handled
       /\ \A g \in DOMAIN groups :
            /\ groups[g].first_build_begun # groups'[g].first_build_begun =>
                /\ Len(SpawnedInStep) = 1
                /\ SpawnedInStep[1].kind = "handle_first_build_begin"
                /\ SpawnedInStep[1].build \in GroupBuilds(Cur, g)
                /\ handled' = handled
                /\ \A b \in BuildIds : StateOf(b)' = StateOf(b)
            /\ groups[g].last_build_ended # groups'[g].last_build_ended =>
                /\ Len(SpawnedInStep) = 1
                /\ SpawnedInStep[1].kind = "handle_last_build_end"
                /\ SpawnedInStep[1].build \in GroupBuilds(Cur, g)
                /\ handled' = handled
                /\ \A b \in BuildIds : StateOf(b)' = StateOf(b)]_vars

\* a build of a group has ended and its two observers wait on the IOLoop,
\* the group's before the service's
C27_Witness ==
    \E b \in BuildIds :
        /\ StateOf(b) = STATE_ENDED
        /\ Len(builds[b].state_change_callbacks) = 2
        /\ tasks = ObserverCalls(b, STATE_ENDED)
        /\ tasks[1].kind = "BuildGroup._on_build_state_change"
        /\ tasks[2].kind = "RepoService._on_build_state_change"

\* C28: a pass of the scheduling loop takes a build from the queue, enters
\* it in the running set and begins it in one step, so that between steps
\* every build of the running set is out of the queue and Running.
C28_AdmissionAtomic ==
    \A b \in RunningSet : b \notin QueuedBuilds /\ StateOf(b) = STATE_RUNNING

\* the scheduling loop begins build b in this step
BeginsInStep(b) == builds[b].begin_time = None /\ builds'[b].begin_time # None

\* the completion callback set_end owes for build b
CompletionCallback(b) ==
    IF builds[b].callback # None
    THEN <<[kind |-> "callback", build |-> b, state |-> STATE_ENDED]>>
    ELSE <<>>

\* C29: the step of the scheduling loop that begins an interactive build
\* (its command has run and returned no container) also ends it with exit
\* code 0: in that one step the observers of the build are called once for
\* Running and then once for Ended, the loop device of the build is
\* released and the build is out of the running set; an interactive build
\* is never Running between two steps.
C29_InteractiveEndsInSameTick ==
    /\ [](\A b \in BuildIds : builds[b].interactive => StateOf(b) # STATE_RUNNING)
    /\ [][\A b \in BuildIds :
            (builds[b].interactive /\ BeginsInStep(b)) =>
                /\ b \in QueuedBuilds
                /\ b \notin QueuedBuilds'
                /\ builds'[b].container = NoContainer
                /\ StateOf(b)' = STATE_ENDED
                /\ builds'[b].exit_code = 0
                /\ dispatched'[b] = ObserverCalls(b, STATE_RUNNING)
                                        \o ObserverCalls(b, STATE_ENDED)
                /\ SpawnedInStep = dispatched'[b] \o CompletionCallback(b)
                /\ HoldsLoopDev(b) => ~loop_devs'[SlotOf(b)]
                /\ b \notin RunningSet']_vars

\* the shell build has run: ended with exit code 0 and no container, its
\* loop device free again, the running set empty, its completion callback
\* waiting on the IOLoop
C29_Witness ==
    \E b \in BuildIds :
        /\ builds[b].interactive
        /\ StateOf(b) = STATE_ENDED
        /\ builds[b].exit_code = 0
        /\ builds[b].container = NoContainer
        /\ HoldsLoopDev(b)
        /\ ~loop_devs[SlotOf(b)]
        /\ RunningSet = {}
        /\ tasks = CompletionCallback(b)
        /\ tasks # <<>>

\* the last step called set_end of build.py on build b, directly or for the
\* exit of its container
BuildPySetEndCalled(b) ==
    /\ build_py'.call.op \in {"set_end", "_on_container_state_change"}
    /\ build_py'.call.build = b

\* C30: set_end of build.py, called on a build that has begun and has not
\* ended, returns, records the exit code and the end time and leaves the
\* build Ended; called on any other build it raises and changes nothing.
C30_BuildPySetEndOnce ==
    [][\A b \in 1..Len(build_py.builds) :
          BuildPySetEndCalled(b) =>
              IF BuildPyGetState(build_py.builds[b]) = STATE_RUNNING
              THEN /\ build_py'.raised = None
                   /\ build_py'.builds[b].exit_code = build_py'.call.arg
                   /\ build_py'.builds[b].end_time # None
                   /\ BuildPyGetState(build_py'.builds[b]) = STATE_ENDED
              ELSE /\ build_py'.raised = "BuildException"
                   /\ build_py'.builds = build_py.builds]_vars

\* C31: the scheduling loop never dies: whatever a pass raises, the loop
\* goes on with the next pass.
C31_RunLoopNeverDies == run_loop_alive

\* the containers named by this controller, and those of other programs
OurContainers == {c \in ContainerIds : StartsWith(docker.cons[c].name, NamePrefix)}
ForeignContainers == ContainerIds \ OurContainers

\* containers docker has that are not running / are running past the age
ExitedContainers == {c \in ContainerIds : ~docker.cons[c].removed /\ ~docker.cons[c].running}
OldRunningContainers ==
    {c \in ContainerIds : ~docker.cons[c].removed /\ docker.cons[c].running
                              /\ docker.cons[c].age_exceeded}

\* the ends spawned in d for container c
EndsSpawnedIn(d, c) ==
    {r \in BagToSet(d.spawned) : r.handler = "end" /\ r.container_id = c}

\* C32: no failing docker command ends the status loop or the cleanup loop,
\* and a pass in which one command fails on one container still handles the
\* others: the status loop saves the log of every other exited container,
\* removes it and delivers the end of its build, the cleanup loop kills every
\* other running container past the age.
C32_LoopsSurviveDockerFailures ==
    /\ docker.status_loop_alive
    /\ docker.cleanup_loop_alive
    /\ \A failure \in StatusLoopFailures :
           LET d2 == DockerStatusLoopPass(docker, failure)
           IN /\ d2.status_loop_alive
              /\ failure.cmd # "ls" =>
                     \A c \in (OurContainers \cap ExitedContainers) \ {failure.container} :
                         /\ d2.cons[c].removed
                         /\ d2.cons[c].log_saved
                         /\ BuildInfoByContainerId(docker, c) # NoInfo =>
                                /\ EndsSpawnedIn(d2, c) # {}
                                /\ d2.info[docker.cons[c].build_key] = NoInfo
    /\ \A failure \in CleanupLoopFailures :
           LET d2 == DockerCleanupLoopPass(docker, failure)
           IN /\ d2.cleanup_loop_alive
              /\ failure.cmd # "ls" =>
                     \A c \in (OurContainers \cap OldRunningContainers) \ {failure.container} :
                         /\ ~d2.cons[c].running
                         /\ d2.cons[c].killed_by = "cleanup_loop"

\* the status loop failed to fetch or write the log of one exited container,
\* whose build end it delivered, and another exited container waits for the
\* next pass
C32_Witness ==
    \E c1, c2 \in OurContainers \cap ExitedContainers :
        /\ c1 # c2
        /\ EndsSpawnedIn(docker, c1) # {}
        /\ ~docker.cons[c1].log_saved
        /\ BuildInfoByContainerId(docker, c2) # NoInfo

\* C33: a removed container has its log in the build log file; a pass of
\* the status loop in which fetching or writing the log of an exited
\* container fails leaves the container in docker, and a later pass in which
\* they succeed saves the log and removes it.
C33_LogSavedBeforeRemoval ==
    /\ \A c \in ContainerIds : docker.cons[c].removed => docker.cons[c].log_saved
    /\ \A c \in OurContainers \cap ExitedContainers :
           /\ \A cmd \in {"logs", "write_log"} :
                  LET d2 == DockerStatusLoopPass(docker, [cmd |-> cmd, container |-> c])
                  IN ~d2.cons[c].removed /\ d2.cons[c].log_saved = docker.cons[c].log_saved
           /\ LET d2 == DockerStatusLoopPass(docker, NoFailure)
              IN d2.cons[c].removed /\ d2.cons[c].log_saved

\* the log of an exited container could not be saved in the pass that
\* delivered the end of its build: the container is still there, while
\* another one was removed with its log saved
C33_Witness ==
    /\ \E c \in OurContainers \cap ExitedContainers :
           EndsSpawnedIn(docker, c) # {} /\ ~docker.cons[c].log_saved
    /\ \E c \in OurContainers : docker.cons[c].removed /\ docker.cons[c].log_saved

\* C34: no docker command is run on a container whose name does not start
\* with the prefix of this controller: such a container is never waited on,
\* killed or removed, its log is not saved and no build end is reported for
\* it.
C34_ForeignContainersUntouched ==
    /\ docker.foreign_cmds = {}
    /\ \A c \in ForeignContainers :
           /\ ~docker.cons[c].removed
           /\ docker.cons[c].killed_by = None
           /\ ~docker.cons[c].log_saved
           /\ EndsSpawnedIn(docker, c) = {}
           /\ \A k \in BuildKeys : docker.info[k] # NoInfo => docker.info[k].container_id # c

\* a container of another instance has exited and is past the age; a
\* container this controller started after it was killed by the cleanup loop
\* and removed by the status loop
C34_Witness ==
    \E c1 \in ForeignContainers \cap ExitedContainers : \E c2 \in OurContainers :
        /\ c2 > c1
        /\ docker.cons[c1].age_exceeded
        /\ docker.cons[c2].killed_by = "cleanup_loop"
        /\ docker.cons[c2].removed

\* C40: _busy is never negative, and it is 0 whenever docker has no
\* container of this controller, so that the parallelism bound does not hold
\* back a queued build while nothing runs.
C40_BusyCounterExact ==
    /\ docker.busy >= 0
    /\ (\A c \in OurContainers : docker.cons[c].removed) => docker.busy = 0

\* the builds handle_new_tag scheduled
TagBuilds == {b \in 1..Len(builds) : builds[b].type = TYPE_TAG}

\* C35: the version of a tag build is the first capture group of the match of
\* RELEASE_TAG_REGEX on its tag when the regex has a capture group, and the
\* whole tag when it has none.
C35_VersionIsFirstGroup ==
    \A b \in TagBuilds :
        LET m == ReMatch(release.tag_regex, builds[b].tag)
        IN /\ m.matched
           /\ builds[b].version = IF Len(m.groups) >= 1 THEN m.groups[1] ELSE builds[b].tag

\* C36: every busy slot of the loop device table is the slot of a build that
\* is in the queue or Running; with the queue empty and no build Running
\* every slot is free.
C36_NoLoopDevLeak ==
    \A l \in LoopDevSlots :
        loop_devs[l] =>
            \E b \in BuildIds :
                /\ HoldsLoopDev(b)
                /\ SlotOf(b) = l
                /\ b \in QueuedBuilds \/ StateOf(b) = STATE_RUNNING

\* the groups a behaviour of MaxBuilds builds can have
LiveGroupIds == 1..(MaxBuilds \div Len(BOARDS))

\* C37: every build group eventually has handle_last_build_end called for
\* it, launches succeeding and containers exiting.
C37_GroupGetsLastEnd ==
    \A g \in LiveGroupIds :
        (Len(groups) >= g) ~> (Len(groups) >= g /\ handled[g].last_end > 0)

\* the builds run_custom_cmd can have scheduled
LiveBuildIds == 1..MaxBuildsLive

\* C38: the future of every call of run_custom_cmd is eventually resolved,
\* launches succeeding and containers exiting.
C38_CustomCmdCompletes ==
    \A b \in LiveBuildIds :
        (Len(builds) >= b /\ builds[b].type = TYPE_CUSTOM)
            ~> (Len(builds) >= b /\ builds[b].future # None)

\* build b is queued and the group rule lets it begin: no build is running,
\* no group is current, or its group is the current one
EligibleQueued(b) ==
    /\ b \in QueuedBuilds
    /\ \/ DOMAIN current_builds_by_board = {}
       \/ current_build_group = NoGroup
       \/ builds[b].group = current_build_group

\* C39: a build begins only when no build for the same board that was
\* scheduled before it is queued and eligible under the group rule.
C39_SameBoardFifo ==
    [][\A b \in BuildIds :
           BeginsInStep(b) =>
               \A b2 \in 1..(b - 1) :
                   ~(builds[b2].board = builds[b].board /\ EligibleQueued(b2))]_vars

====
